---- MODULE Spec2Model ----
(***************************************************************************)
(* Generated simulation code of the Modelica model oc_latch (OMPython).    *)
(*                                                                         *)
(* The DATA aggregate is the record `data`; every generated equation       *)
(* function oc_latch_eqFunction_N is an operator from a machine record     *)
(* (data, static flags, log, and the bookkeeping of the running pass) to   *)
(* the machine record after the equation.  A callback of the model is one  *)
(* action that runs its equations in the generated order and stops at the  *)
(* first equation that throws.                                             *)
(*                                                                         *)
(* Numbers: modelica_real is modelled by the integers.  Time is counted in *)
(* milliseconds, voltages in hundredths of a volt.  Division is integer    *)
(* division; a division by zero throws as DIVISION_SIM does.  A           *)
(* modelica_real that is not a number is the value NaN; it enters a run    *)
(* only as the parameter resistor.alpha, and the equations its value       *)
(* reaches (R_actual, current and loss power of the resistors,             *)
(* constantVoltage.i and the assertions) use the IEEE operators below.     *)
(***************************************************************************)
EXTENDS Integers, Sequences, FiniteSets, TLC

VARIABLES data, flags, log, pass, solver, evt

vars == <<data, flags, log, pass, solver, evt>>

(***************************************************************************)
(* Sizes of the variable store.                                            *)
(***************************************************************************)
nVariablesReal == 58
nVariablesBoolean == 12
nParametersReal == 61
nParametersInteger == 5
nParametersBoolean == 11
nRelations == 7
nZeroCrossings == 5

RealIdx == 0..(nVariablesReal - 1)
BoolIdx == 0..(nVariablesBoolean - 1)
RelIdx == 0..(nRelations - 1)

(***************************************************************************)
(* Literals of the generated code, in model units.                         *)
(***************************************************************************)
T_01 == 100      \* 0.1  s
T_09 == 900      \* 0.9  s
T_095 == 950     \* 0.95 s
T_096 == 960     \* 0.96 s
BIG == 100000    \* 1e60
DBL_MAX == 1000000
TINY == 1        \* 1e-15: the least positive number of the integer domain
\* width of the dead band of the ZC comparisons (tolZC of the runtime)
ZCEps == 1

Abs(x) == IF x < 0 THEN -x ELSE x

\* IEEE 754: NaN is outside the range of the numbers of a run; an operation
\* on a NaN gives NaN and a comparison with a NaN is false
NaN == -(1000 * DBL_MAX)
AddR(a, b) == IF a = NaN \/ b = NaN THEN NaN ELSE a + b
SubR(a, b) == IF a = NaN \/ b = NaN THEN NaN ELSE a - b
MulR(a, b) == IF a = NaN \/ b = NaN THEN NaN ELSE a * b
DivR(a, b) == IF a = NaN \/ b = NaN THEN NaN ELSE a \div b

(***************************************************************************)
(* Comparison helpers of the runtime.  The ZC variants take the stored     *)
(* value of the relation as direction and keep it inside the dead band.    *)
(***************************************************************************)
GreaterEq(a, b) == a # NaN /\ b # NaN /\ a >= b
LessEq(a, b) == a # NaN /\ b # NaN /\ a <= b
GreaterEqZC(a, b, direction) == IF direction THEN a - b >= -ZCEps ELSE a - b >= ZCEps
GreaterZC(a, b, direction) == IF direction THEN a - b > -ZCEps ELSE a - b > ZCEps
LessEqZC(a, b, direction) == ~GreaterZC(a, b, ~direction)

\* relationhysteresis(data, &res, exp1, exp2, index, op, opZC): the value
relationhysteresis(d, exp1, exp2, index, op) ==
    IF d.initial
    THEN (IF op = "GreaterEq" THEN GreaterEq(exp1, exp2) ELSE LessEq(exp1, exp2))
    ELSE IF ~d.discreteCall
    THEN d.relationsPre[index]
    ELSE (IF op = "GreaterEq"
          THEN GreaterEqZC(exp1, exp2, d.storedRelations[index])
          ELSE LessEqZC(exp1, exp2, d.storedRelations[index]))

(***************************************************************************)
(* The machine record threaded through the equations of one pass.          *)
(*   d   data            fl  static already-warned flags    lg  log counts *)
(*   tr  equations entered, in order      ab  the throw that ended the pass*)
(*   wr  locations assigned               sc  calls of solve_linear_system *)
(*   res residual buffer   aux  aux_x[0]   ret  retValue of the last solve *)
(*   sol linear-system equations that stored their solution                *)
(*   lsFail  systems that the linear solver fails to solve                 *)
(***************************************************************************)
NoAbort == [eq |-> 0, kind |-> "none", time |-> 0]

Machine(d, fl, lg, lsFail) ==
    [d |-> d, fl |-> fl, lg |-> lg, tr |-> <<>>, ab |-> NoAbort, wr |-> {}, sc |-> <<>>,
     res |-> 0, aux |-> 0, ret |-> 0, sol |-> {}, lsFail |-> lsFail]

Throw(m, eq, kind) == [m EXCEPT !.ab = [eq |-> eq, kind |-> kind, time |-> m.d.timeValue]]

SetReal(m, i, v) == [m EXCEPT !.d.realVars[i] = v, !.wr = @ \cup {<<"realVars", i>>}]
SetBool(m, i, v) == [m EXCEPT !.d.booleanVars[i] = v, !.wr = @ \cup {<<"booleanVars", i>>}]
SetRealPre(m, i, v) == [m EXCEPT !.d.realVarsPre[i] = v, !.wr = @ \cup {<<"realVarsPre", i>>}]
SetBoolPre(m, i, v) == [m EXCEPT !.d.booleanVarsPre[i] = v, !.wr = @ \cup {<<"booleanVarsPre", i>>}]
SetRealParam(m, i, v) == [m EXCEPT !.d.realParameter[i] = v, !.wr = @ \cup {<<"realParameter", i>>}]

\* the store into relations[index] that relationhysteresis does outside
\* the continuous branch
SetRelation(m, index, res) ==
    IF m.d.initial \/ m.d.discreteCall
    THEN [m EXCEPT !.d.relations[index] = res, !.wr = @ \cup {<<"relations", index>>}]
    ELSE m

(***************************************************************************)
(* External time table (ModelicaStandardTables, constant segments, hold    *)
(* last point).  The handle holds the copy of the 3x2 table made by the    *)
(* constructor; a null handle answers like an empty table.                 *)
(***************************************************************************)
NullObj == [alive |-> FALSE, t |-> <<>>, y |-> <<>>]

TableTimesAfter(obj, t) == {obj.t[k] : k \in {j \in DOMAIN obj.t : obj.t[j] > t}}

SetMin(S) == CHOOSE x \in S : \A z \in S : x <= z
SetMax(S) == CHOOSE x \in S : \A z \in S : x >= z

getNextTimeEvent(obj, t) ==
    IF TableTimesAfter(obj, t) = {} THEN DBL_MAX ELSE SetMin(TableTimesAfter(obj, t))

\* index of the segment that holds time t (0 before the first point)
TableSegment(obj, t) ==
    IF {k \in DOMAIN obj.t : obj.t[k] <= t} = {} THEN 0
    ELSE SetMax({k \in DOMAIN obj.t : obj.t[k] <= t})

\* value of column 1; while the event at nextTimeEvent is not yet taken
\* (nextTimeEvent = pre(nextTimeEvent) <= t) the left segment is used
getTimeTableValueNoDer(obj, t, nextTimeEvent, pre_nextTimeEvent) ==
    LET k == TableSegment(obj, t)
        kk == IF nextTimeEvent = pre_nextTimeEvent /\ t >= nextTimeEvent /\ k > 1
              THEN k - 1 ELSE k
    IN IF obj.t = <<>> \/ kk = 0 THEN 0 ELSE obj.y[kk]

(***************************************************************************)
(* Residual callbacks of the torn linear systems.  Each writes the         *)
(* iteration variable, recomputes the inner equations and leaves the       *)
(* residual in res[0].                                                     *)
(***************************************************************************)
\* system 0 (equation 23): unknown R2.v, inner equations 17 and 18
residualFunc23(m, x) ==
    IF m.d.realVars[4] = 0 THEN Throw(SetReal(m, 6, x), 17, "division")
    ELSE LET i == x \div m.d.realVars[4]
         IN [m EXCEPT !.d.realVars[6] = x, !.d.realVars[5] = i,
                      !.d.realVars[2] = m.d.realVars[1] * i,
                      !.wr = @ \cup {<<"realVars", 6>>, <<"realVars", 5>>, <<"realVars", 2>>},
                      !.res = m.d.realParameter[29] - x - m.d.realVars[1] * i]

\* system 1 (equation 33): unknown resistor3.v, inner equations 27 and 28
residualFunc33(m, x) ==
    IF m.d.realVars[51] = 0 THEN Throw(SetReal(m, 53, x), 27, "division")
    ELSE LET i == x \div m.d.realVars[51]
         IN [m EXCEPT !.d.realVars[53] = x, !.d.realVars[52] = i,
                      !.d.realVars[49] = m.d.realVars[48] * i,
                      !.wr = @ \cup {<<"realVars", 53>>, <<"realVars", 52>>, <<"realVars", 49>>},
                      !.res = m.d.realParameter[29] - x - m.d.realVars[48] * i]

\* the residual of system 2 without the inner equation 93: resistor3.v
\* keeps its old value
residualFunc98_noInner(m, x) ==
    IF m.d.realVars[48] = 0 THEN Throw(SetReal(m, 49, x), 92, "division")
    ELSE LET i == x \div m.d.realVars[48]
         IN [m EXCEPT !.d.realVars[49] = x, !.d.realVars[52] = i,
                      !.wr = @ \cup {<<"realVars", 49>>, <<"realVars", 52>>},
                      !.res = m.d.realParameter[29] - m.d.realVars[51] * i - x]

\* system 2 (equation 98): unknown resistor2.v, inner equations 92 and 93
residualFunc98(m, x) ==
    IF m.d.realVars[48] = 0 THEN Throw(SetReal(m, 49, x), 92, "division")
    ELSE LET i == x \div m.d.realVars[48]
         IN [m EXCEPT !.d.realVars[49] = x, !.d.realVars[52] = i,
                      !.d.realVars[53] = m.d.realVars[51] * i,
                      !.wr = @ \cup {<<"realVars", 49>>, <<"realVars", 52>>, <<"realVars", 53>>},
                      !.res = m.d.realParameter[29] - m.d.realVars[51] * i - x]

\* the residual of system 3 with the drop over R1 added instead of
\* subtracted
residualFunc121_plus(m, x) ==
    [m EXCEPT !.d.realVars[5] = x,
              !.d.realVars[2] = m.d.realVars[1] * x,
              !.d.realVars[6] = m.d.realVars[4] * x,
              !.wr = @ \cup {<<"realVars", 5>>, <<"realVars", 2>>, <<"realVars", 6>>},
              !.res = m.d.realParameter[29] - m.d.realVars[4] * x + m.d.realVars[1] * x]

\* system 3 (equation 121): unknown R2.i, inner equations 115 and 116
residualFunc121(m, x) ==
    [m EXCEPT !.d.realVars[5] = x,
              !.d.realVars[2] = m.d.realVars[1] * x,
              !.d.realVars[6] = m.d.realVars[4] * x,
              !.wr = @ \cup {<<"realVars", 5>>, <<"realVars", 2>>, <<"realVars", 6>>},
              !.res = m.d.realParameter[29] - m.d.realVars[4] * x - m.d.realVars[1] * x]

\* the residual callback registered for each system index
residualFunc(m, sysIndex, x) ==
    CASE sysIndex = 0 -> residualFunc23(m, x)
      [] sysIndex = 1 -> residualFunc33(m, x)
      [] sysIndex = 2 -> residualFunc98(m, x)
      [] sysIndex = 3 -> residualFunc121(m, x)

(***************************************************************************)
(* solve_linear_system of the runtime: one residual evaluation at the      *)
(* seed, then either a failure (retValue 1: the systems in lsFail fail,     *)
(* and so does a system without a root) or the                             *)
(* residual callback at the root, which is returned in aux_x.              *)
(***************************************************************************)
\* sets of systems that the linear solver of a run fails to solve
SolverPlans == {{}, {0}, {1}, {2}, {3}}

SolMax == 200
SolRange == (-SolMax)..SolMax

\* res[0] of the residual callback of system sysIndex at x, as a value
ResidualValue(d, sysIndex, x) ==
    CASE sysIndex = 0 -> d.realParameter[29] - x - d.realVars[1] * (x \div d.realVars[4])
      [] sysIndex = 1 -> d.realParameter[29] - x - d.realVars[48] * (x \div d.realVars[51])
      [] sysIndex = 2 -> d.realParameter[29] - d.realVars[51] * (x \div d.realVars[48]) - x
      [] sysIndex = 3 -> d.realParameter[29] - d.realVars[4] * x - d.realVars[1] * x

\* roots of the residual of system sysIndex in the state d
Roots(d, sysIndex) == {x \in SolRange : ResidualValue(d, sysIndex, x) = 0}

\* end of the solver, on the machine record mt left by the residual
\* evaluation at the seed and the roots of the residual
SolveWith(mt, sysIndex, aux_x, roots) ==
    IF sysIndex \in mt.lsFail \/ roots = {}
    THEN [mt EXCEPT !.ret = 1, !.aux = aux_x]
    ELSE [residualFunc(mt, sysIndex, SetMin(roots)) EXCEPT !.ret = 0, !.aux = SetMin(roots)]

SolveFrom(mt, sysIndex, aux_x) ==
    IF mt.ab # NoAbort THEN mt
    ELSE SolveWith(mt, sysIndex, aux_x, Roots(mt.d, sysIndex))

solve_linear_system(m, sysIndex, aux_x) ==
    SolveFrom(residualFunc([m EXCEPT !.sc = Append(@, sysIndex)], sysIndex, aux_x),
              sysIndex, aux_x)

\* a tail that stores aux_x[0] without looking at retValue
StoreSolution_noCheck(s, eq, unknown) ==
    IF s.ab # NoAbort THEN s
    ELSE [SetReal(s, unknown, s.aux) EXCEPT !.sol = @ \cup {eq}]

\* tail of the equation function of a linear system: throw when the solver
\* reported a failure, otherwise store aux_x[0] into the unknown
StoreSolution(s, eq, unknown) ==
    IF s.ab # NoAbort THEN s
    ELSE IF s.ret > 0 THEN Throw(s, eq, "linear")
    ELSE [SetReal(s, unknown, s.aux) EXCEPT !.sol = @ \cup {eq}]

(***************************************************************************)
(* Equations of the simulation system (oc_latch.c).                        *)
(***************************************************************************)
\* $whenCondition1 = time >= pre(combiTimeTable.nextTimeEvent)
eqFunction_89(m) ==
    LET tmp0 == relationhysteresis(m.d, m.d.timeValue, m.d.realVarsPre[56], 6, "GreaterEq")
    IN SetBool(SetRelation(m, 6, tmp0), 0, tmp0)

\* reset.y = time >= 0.95 and time <= 0.96
eqFunction_90(m) ==
    LET tmp1 == relationhysteresis(m.d, m.d.timeValue, T_095, 4, "GreaterEq")
        tmp2 == relationhysteresis(m.d, m.d.timeValue, T_096, 5, "LessEq")
    IN SetBool(SetRelation(SetRelation(m, 4, tmp1), 5, tmp2), 11, tmp1 /\ tmp2)

\* enable.y = time <= 0.1 or time >= 0.9
eqFunction_91(m) ==
    LET tmp3 == relationhysteresis(m.d, m.d.timeValue, T_01, 2, "LessEq")
        tmp4 == relationhysteresis(m.d, m.d.timeValue, T_09, 3, "GreaterEq")
    IN SetBool(SetRelation(SetRelation(m, 2, tmp3), 3, tmp4), 2, tmp3 \/ tmp4)

\* equation 98 seeded with the unknown of system 1, resistor3.v
eqFunction_98_otherSeed(m) ==
    StoreSolution(solve_linear_system(m, 2, m.d.oldRealVars[53]), 98, 49)

\* linear system 2, unknown resistor2.v
eqFunction_98(m) ==
    StoreSolution(solve_linear_system(m, 2, m.d.oldRealVars[49]), 98, 49)

\* equation 101 reading pre11.u instead of pre(pre11.u)
eqFunction_101_noPre(m) == SetBool(m, 10, m.d.booleanVars[9])

\* pre11.y = pre(pre11.u)
eqFunction_101(m) == SetBool(m, 10, m.d.booleanVarsPre[9])
\* nor1.u1 = pre(pre1.u)
eqFunction_102(m) == SetBool(m, 5, m.d.booleanVarsPre[8])
\* equation 103 as an or-gate instead of a nor-gate
eqFunction_103_or(m) == SetBool(m, 1, m.d.booleanVars[5] \/ m.d.booleanVars[10])

\* SW = not (nor1.u1 or pre11.y)
eqFunction_103(m) == SetBool(m, 1, ~(m.d.booleanVars[5] \/ m.d.booleanVars[10]))
\* equation 104 without the enable input
eqFunction_104_noEnable(m) == SetBool(m, 8, ~m.d.booleanVars[1])

\* pre1.u = not (SW or enable.y)
eqFunction_104(m) == SetBool(m, 8, ~(m.d.booleanVars[1] \/ m.d.booleanVars[2]))

\* equation 106 without the edge test of its when-clause
eqFunction_106_noEdge(m) ==
    SetReal(m, 57, getNextTimeEvent(m.d.extObjs, m.d.realVars[9]))

\* when $whenCondition1 and not pre($whenCondition1): nextTimeEventScaled
eqFunction_106(m) ==
    IF m.d.booleanVars[0] /\ ~m.d.booleanVarsPre[0]
    THEN SetReal(m, 57, getNextTimeEvent(m.d.extObjs, m.d.realVars[9]))
    ELSE m

\* combiTimeTable.y[1]
eqFunction_107(m) ==
    SetReal(m, 10, getTimeTableValueNoDer(m.d.extObjs, m.d.realVars[9],
                                          m.d.realVars[57], m.d.realVarsPre[57]))

\* equation 108 without the edge test of its when-clause
eqFunction_108_noEdge(m) ==
    SetReal(m, 56, IF m.d.realVars[57] < BIG THEN m.d.realVars[57] ELSE BIG)

\* when $whenCondition1 and not pre($whenCondition1): nextTimeEvent
eqFunction_108(m) ==
    IF m.d.booleanVars[0] /\ ~m.d.booleanVarsPre[0]
    THEN SetReal(m, 56, IF m.d.realVars[57] < BIG THEN m.d.realVars[57] ELSE BIG)
    ELSE m

\* output of an operational amplifier:
\* 0.5 * V + absSlope * vin / (1 + absSlope * |f * vin|)
OpAmpDivisor(absSlope, f, vin) ==
    1 + absSlope * (IF f * vin < 0 THEN (-f) * vin ELSE f * vin)

\* potentialSensor1.phi
eqFunction_110(m) ==
    LET den == OpAmpDivisor(m.d.realVars[30], m.d.realVars[31], m.d.realVars[34])
    IN IF den = 0 THEN Throw(m, 110, "division")
       ELSE SetReal(m, 38, (m.d.realParameter[29] \div 2)
                           + m.d.realVars[30] * (m.d.realVars[34] \div den))




\* greaterEqualThreshold1.y = potentialSensor1.phi >= threshold
eqFunction_114(m) ==
    LET tmp7 == relationhysteresis(m.d, m.d.realVars[38], m.d.realParameter[33], 1, "GreaterEq")
    IN SetBool(SetRelation(m, 1, tmp7), 3, tmp7)

\* linear system 3, unknown R2.i
eqFunction_121(m) ==
    StoreSolution(solve_linear_system(m, 3, m.d.oldRealVars[5]), 121, 5)


\* potentialSensor.phi
eqFunction_124(m) ==
    LET den == OpAmpDivisor(m.d.realVars[23], m.d.realVars[24], m.d.realVars[27])
    IN IF den = 0 THEN Throw(m, 124, "division")
       ELSE SetReal(m, 36, (m.d.realParameter[29] \div 2)
                           + m.d.realVars[23] * (m.d.realVars[27] \div den))




\* nand.u1 = potentialSensor.phi >= threshold
eqFunction_128(m) ==
    LET tmp9 == relationhysteresis(m.d, m.d.realVars[36], m.d.realParameter[32], 0, "GreaterEq")
    IN SetBool(SetRelation(m, 0, tmp9), 4, tmp9)

\* nor3.u2 = not (nand.u1 and greaterEqualThreshold1.y)
eqFunction_129(m) == SetBool(m, 6, ~(m.d.booleanVars[4] /\ m.d.booleanVars[3]))
\* nor3.y = not (pre11.y or nor3.u2)
eqFunction_130(m) == SetBool(m, 7, ~(m.d.booleanVars[10] \/ m.d.booleanVars[6]))
\* equation 131 without the reset input
eqFunction_131_noReset(m) == SetBool(m, 9, ~m.d.booleanVars[7])

\* pre11.u = not (nor3.y or reset.y)
eqFunction_131(m) == SetBool(m, 9, ~(m.d.booleanVars[7] \/ m.d.booleanVars[11]))

(***************************************************************************)
(* Assertions.  A message is counted in lg; the static flag of an          *)
(* assertion is fl[k].                                                     *)
(***************************************************************************)
Logged(m, k) == [m EXCEPT !.lg[k] = @ + 1]

\* an assertion that takes the warning branch in either mode
TemperatureAssert_neverThrows(m, k, alpha, T, T_ref) ==
    LET tmp == GreaterEq(AddR(1, MulR(m.d.realParameter[alpha],
                                      SubR(m.d.realParameter[T], m.d.realParameter[T_ref]))),
                         TINY)
    IN IF tmp THEN m ELSE [Logged(m, k) EXCEPT !.d.needToReThrow = TRUE]

\* equations 134..139 (and 83..88 of the initial system):
\*   assert(1.0 + alpha * (T - T_ref) >= 1e-15, "Temperature outside scope of model!")
\* the static flag of these functions is declared and never used
TemperatureAssert(m, k, alpha, T, T_ref) ==
    LET tmp == GreaterEq(AddR(1, MulR(m.d.realParameter[alpha],
                                      SubR(m.d.realParameter[T], m.d.realParameter[T_ref]))),
                         TINY)
    IN IF tmp THEN m
       ELSE IF m.d.noThrowAsserts
       THEN [Logged(m, k) EXCEPT !.d.needToReThrow = TRUE]
       ELSE Throw(Logged(m, k), k, "assert")

\* first parameter index of each resistor, by assertion equation
ResistorBase(k) ==
    CASE k \in {134, 83} -> 0      \* R1
      [] k \in {135, 84} -> 6      \* R2
      [] k \in {136, 85} -> 38     \* resistor
      [] k \in {137, 86} -> 44     \* resistor1
      [] k \in {138, 87} -> 50     \* resistor2
      [] k \in {139, 88} -> 56     \* resistor3

\* offsets of T, T_ref and alpha from the resistor's first parameter
OffT == 1
OffTref == 3
OffAlpha == 4
(***************************************************************************)
(* Equations of the initial system (oc_latch_06inz.c).                     *)
(***************************************************************************)
\* linear system 0, unknown R2.v
eqFunction_23(m) ==
    StoreSolution(solve_linear_system(m, 0, m.d.oldRealVars[6]), 23, 6)

\* linear system 1, unknown resistor3.v
eqFunction_33(m) ==
    StoreSolution(solve_linear_system(m, 1, m.d.oldRealVars[53]), 33, 53)

\* nextTimeEventScaled stored one place past the end of realVars
eqFunction_38_pastEnd(m) ==
    SetReal(m, nVariablesReal, getNextTimeEvent(m.d.extObjs, m.d.realVars[9]))

\* combiTimeTable.nextTimeEventScaled, assigned without a condition
eqFunction_38(m) == SetReal(m, 57, getNextTimeEvent(m.d.extObjs, m.d.realVars[9]))

\* combiTimeTable.nextTimeEvent, assigned without a condition
eqFunction_39(m) == SetReal(m, 56, IF m.d.realVars[57] < BIG THEN m.d.realVars[57] ELSE BIG)

\* equations 1..6 and 64..80 assign 0.0 to one variable each
ZeroEqVar(k) ==
    CASE k \in 1..6 -> <<22, 29, 54, 25, 33, 7>>[k]
      [] k \in 64..80 ->
           <<12, 26, 21, 13, 14, 16, 17, 35, 32, 28, 19, 37, 20, 8, 55, 18, 15>>[k - 63]

\* equations 9..14: R_actual = R * (1 + alpha * (T - T_ref)); variable and
\* first parameter index of the resistor
RActualVar(k) == <<51, 48, 44, 40, 4, 1>>[k - 8]
RActualBase(k) == <<56, 50, 44, 38, 6, 0>>[k - 8]

eqFunctionInz(m, k) ==
    CASE k \in (1..6) \cup (64..80) -> SetReal(m, ZeroEqVar(k), 0)
      [] k \in {7, 8} ->
           IF m.d.realParameter[29] = 0 THEN Throw(m, k, "division")
           ELSE SetReal(m, IF k = 7 THEN 24 ELSE 31, 2 \div m.d.realParameter[29])
      [] k \in 9..14 ->
           SetReal(m, RActualVar(k),
                   MulR(m.d.realParameter[RActualBase(k)],
                        AddR(1, MulR(m.d.realParameter[RActualBase(k) + OffAlpha],
                                     SubR(m.d.realParameter[RActualBase(k) + OffT],
                                          m.d.realParameter[RActualBase(k) + OffTref])))))
      [] k = 15 -> SetReal(m, 23, Abs(m.d.realParameter[34]))
      [] k = 16 -> SetReal(m, 30, Abs(m.d.realParameter[36]))
      [] k = 23 -> eqFunction_23(m)
      [] k = 33 -> eqFunction_33(m)
      [] k = 38 -> eqFunction_38(m)
      [] k = 39 -> eqFunction_39(m)
      [] k = 40 -> SetRealPre(m, 57, 0)
      [] k = 41 -> SetReal(m, 10, getTimeTableValueNoDer(m.d.extObjs, m.d.realVars[9],
                                                         m.d.realVars[57], m.d.realVarsPre[57]))
      [] k = 56 -> SetBoolPre(m, 9, m.d.booleanParameter[6])
      [] k = 57 -> SetBool(m, 10, m.d.booleanVarsPre[9])
      [] k = 60 -> SetBoolPre(m, 8, m.d.booleanParameter[5])
      [] k = 61 -> SetBool(m, 5, m.d.booleanVarsPre[8])
      [] k = 81 -> SetRealPre(m, 56, 0)
      [] k = 82 -> SetBool(m, 0, GreaterEq(m.d.timeValue, m.d.realVarsPre[56]))
      [] k \in 83..88 ->
           TemperatureAssert(m, k, ResistorBase(k) + OffAlpha,
                             ResistorBase(k) + OffT, ResistorBase(k) + OffTref)

(***************************************************************************)
(* Equations of the bound parameters (oc_latch_08bnd.c).                   *)
(***************************************************************************)
\* constructor of the external table: copies the 3x2 matrix at
\* realParameter[22]
ExternalCombiTimeTable_constructor(p) ==
    [alive |-> TRUE, t |-> <<p[22], p[24], p[26]>>, y |-> <<p[23], p[25], p[27]>>]

getTimeTableTmax(obj) == IF obj.t = <<>> THEN 0 ELSE obj.t[Len(obj.t)]
getTimeTableTmin(obj) == IF obj.t = <<>> THEN 0 ELSE obj.t[1]

\* equations 142..151: parameters bound to constantVoltage.V
BoundToV(k) == <<13, 55, 30, 37, 49, 43, 35, 5, 12, 31>>[k - 141]
\* equations 152..163: T = T_ref, then T_heatPort = T, per resistor
BoundTTarget(k) == <<1, 2, 7, 8, 39, 40, 45, 46, 51, 52, 57, 58>>[k - 151]
\* equations 152, 154, ...: T bound to T itself instead of T_ref
BoundTSource_self(k) == <<1, 1, 7, 7, 39, 39, 45, 45, 51, 51, 57, 57>>[k - 151]
BoundTSource(k) == <<3, 1, 9, 7, 41, 39, 47, 45, 53, 51, 59, 57>>[k - 151]
\* equations 216..233: parameter that must be >= 0.0
MinZeroParam(k) ==
    <<3, 1, 2, 9, 7, 8, 41, 39, 40, 47, 45, 46, 53, 51, 52, 59, 57, 58>>[k - 215]

\* condition of the assertions 216..239
BoundAssertCond(d, k) ==
    CASE k \in 216..233 -> GreaterEq(d.realParameter[MinZeroParam(k)], 0)
      [] k = 234 -> GreaterEq(d.integerParameter[4], 1) /\ LessEq(d.integerParameter[4], 3)
      [] k = 235 -> GreaterEq(d.realParameter[28], TINY)
      [] k = 236 -> GreaterEq(d.integerParameter[1], 1) /\ LessEq(d.integerParameter[1], 4)
      [] k = 237 -> GreaterEq(d.integerParameter[3], 1) /\ LessEq(d.integerParameter[3], 6)
      [] k = 238 -> GreaterEq(d.integerParameter[2], 1)
      [] k = 239 -> GreaterEq(d.realParameter[11], 0)

\* an assertion that checks at every call and takes its flag back when the
\* condition holds again
BoundAssert_reset(m, k) ==
    IF BoundAssertCond(m.d, k) THEN [m EXCEPT !.fl[k] = FALSE]
    ELSE IF m.fl[k] THEN m
    ELSE [Logged(m, k) EXCEPT !.fl[k] = TRUE]

\* assertions 216..239: guarded by the static flag, which is set at the
\* first violation; both branches only print
BoundAssert(m, k) ==
    IF m.fl[k] THEN m
    ELSE IF BoundAssertCond(m.d, k) THEN m
    ELSE [Logged(m, k) EXCEPT !.fl[k] = TRUE]

eqFunctionBnd(m, k) ==
    CASE k = 140 -> SetRealParam(m, 16, m.d.realParameter[17])
      [] k = 141 ->
           [m EXCEPT !.d.extObjs = ExternalCombiTimeTable_constructor(m.d.realParameter),
                     !.wr = @ \cup {<<"extObjs", 0>>}]
      [] k \in 142..151 -> SetRealParam(m, BoundToV(k), m.d.realParameter[29])
      [] k \in 152..163 -> SetRealParam(m, BoundTTarget(k), m.d.realParameter[BoundTSource(k)])
      [] k = 171 -> SetRealParam(m, 19, getTimeTableTmax(m.d.extObjs))
      [] k = 172 -> SetRealParam(m, 21, getTimeTableTmin(m.d.extObjs))
      [] k = 173 -> SetRealParam(m, 18, m.d.realParameter[19])
      [] k = 174 -> SetRealParam(m, 20, m.d.realParameter[21])
      [] k \in 216..239 -> BoundAssert(m, k)

(***************************************************************************)
(* Dispatch of an equation index to its function, and the runner of a      *)
(* sequence of equations: an equation that throws ends the pass.           *)
(***************************************************************************)
eqFunction(m, k) ==
    CASE k = 89 -> eqFunction_89(m)   [] k = 90 -> eqFunction_90(m)
      [] k = 91 -> eqFunction_91(m)   [] k = 98 -> eqFunction_98(m)
      \* resistor2.LossPower, resistor3.LossPower
      [] k = 99 -> SetReal(m, 47, m.d.realVars[49] * m.d.realVars[52])
      [] k = 100 -> SetReal(m, 50, m.d.realVars[53] * m.d.realVars[52])
      [] k = 101 -> eqFunction_101(m) [] k = 102 -> eqFunction_102(m)
      [] k = 103 -> eqFunction_103(m) [] k = 104 -> eqFunction_104(m)
      \* combiTimeTable.timeScaled = time
      [] k = 105 -> SetReal(m, 9, m.d.timeValue)
      [] k = 106 -> eqFunction_106(m)
      [] k = 107 -> eqFunction_107(m) [] k = 108 -> eqFunction_108(m)
      [] k = 109 -> SetReal(m, 34, m.d.realVars[10] - m.d.realVars[53])
      [] k = 110 -> eqFunction_110(m)
      \* resistor1: v, i = v / R_actual, LossPower
      [] k = 111 -> SetReal(m, 46, m.d.realParameter[29] - m.d.realVars[38])
      [] k = 112 -> IF m.d.realVars[44] = 0 THEN Throw(m, 112, "division")
                    ELSE SetReal(m, 45, DivR(m.d.realVars[46], m.d.realVars[44]))
      [] k = 113 -> SetReal(m, 43, MulR(m.d.realVars[46], m.d.realVars[45]))
      [] k = 114 -> eqFunction_114(m)
      [] k = 121 -> eqFunction_121(m)
      [] k = 122 -> SetReal(m, 0, m.d.realVars[2] * m.d.realVars[5])
      [] k = 123 -> SetReal(m, 27, m.d.realVars[6] - m.d.realVars[10])
      [] k = 124 -> eqFunction_124(m)
      \* resistor: v, i = v / R_actual, LossPower
      [] k = 125 -> SetReal(m, 42, m.d.realParameter[29] - m.d.realVars[36])
      [] k = 126 -> IF m.d.realVars[40] = 0 THEN Throw(m, 126, "division")
                    ELSE SetReal(m, 41, DivR(m.d.realVars[42], m.d.realVars[40]))
      [] k = 127 -> SetReal(m, 39, MulR(m.d.realVars[42], m.d.realVars[41]))
      [] k = 128 -> eqFunction_128(m)
      [] k = 129 -> eqFunction_129(m) [] k = 130 -> eqFunction_130(m)
      [] k = 131 -> eqFunction_131(m)
      [] k = 132 -> SetReal(m, 3, m.d.realVars[6] * m.d.realVars[5])
      \* constantVoltage.i
      [] k = 133 ->
           SetReal(m, 11, SubR(SubR(SubR(-m.d.realVars[52], m.d.realVars[45]),
                                    m.d.realVars[41]), m.d.realVars[5]))
      [] k \in 134..139 ->
           TemperatureAssert(m, k, ResistorBase(k) + OffAlpha,
                             ResistorBase(k) + OffT, ResistorBase(k) + OffTref)

Entered(m, k) == [m EXCEPT !.tr = Append(@, k)]

Step(m, k) ==
    IF k < 89 THEN eqFunctionInz(Entered(m, k), k)
    ELSE IF k < 140 THEN eqFunction(Entered(m, k), k)
    ELSE eqFunctionBnd(Entered(m, k), k)

\* equations eqs[lo..hi] in order, evaluated by halves; an equation is
\* not reached once the pass has thrown
\* a pass that goes on with the next equation after the throw of an
\* assertion
RECURSIVE RunRange_continues(_, _, _, _)
RunRange_continues(m, eqs, lo, hi) ==
    IF (m.ab # NoAbort /\ m.ab.kind = "linear") \/ lo > hi THEN m
    ELSE IF lo = hi THEN Step(m, eqs[lo])
    ELSE RunRange_continues(RunRange_continues(m, eqs, lo, (lo + hi) \div 2),
                            eqs, (lo + hi) \div 2 + 1, hi)

RECURSIVE RunRange(_, _, _, _)
RunRange(m, eqs, lo, hi) ==
    IF m.ab # NoAbort \/ lo > hi THEN m
    ELSE IF lo = hi THEN Step(m, eqs[lo])
    ELSE RunRange(RunRange(m, eqs, lo, (lo + hi) \div 2), eqs, (lo + hi) \div 2 + 1, hi)

RunEqs(m, eqs) == RunRange(m, eqs, 1, Len(eqs))

(***************************************************************************)
(* Callbacks of the simulation system.                                     *)
(***************************************************************************)
\* the order of oc_latch_functionDAE with the second when-clause before
\* the first
functionDAE_eqs_swapped ==
    <<89, 90, 91, 98, 99, 100, 101, 102, 103, 104, 105, 108, 107, 106, 109, 110,
      111, 112, 113, 114, 121, 122, 123, 124, 125, 126, 127, 128, 129, 130, 131,
      132, 133, 139, 138, 137, 136, 135, 134>>

\* order of the calls in oc_latch_functionDAE
functionDAE_eqs ==
    <<89, 90, 91, 98, 99, 100, 101, 102, 103, 104, 105, 106, 107, 108, 109, 110,
      111, 112, 113, 114, 121, 122, 123, 124, 125, 126, 127, 128, 129, 130, 131,
      132, 133, 139, 138, 137, 136, 135, 134>>

\* the continuous pass without equation 104
functionAlg_system0_eqs_short ==
    <<89, 90, 91, 98, 99, 100, 101, 102, 103, 105, 107, 109, 110,
      111, 112, 113, 114, 121, 122, 123, 124, 125, 126, 127, 128, 129, 130, 131,
      132, 133, 134, 135, 136, 137, 138, 139>>

\* order of the calls in functionAlg_system0
functionAlg_system0_eqs ==
    <<89, 90, 91, 98, 99, 100, 101, 102, 103, 104, 105, 107, 109, 110,
      111, 112, 113, 114, 121, 122, 123, 124, 125, 126, 127, 128, 129, 130, 131,
      132, 133, 134, 135, 136, 137, 138, 139>>

\* the zero-crossing equations without equation 109
function_ZeroCrossingsEquations_eqs_no109 == <<89, 98, 105, 107, 110, 121, 123, 124>>

\* order of the calls in oc_latch_function_ZeroCrossingsEquations
function_ZeroCrossingsEquations_eqs == <<89, 98, 105, 107, 109, 110, 121, 123, 124>>

\* oc_latch_functionLocalKnownVars has an empty body
functionLocalKnownVars(m) == m

\* a function_savePreSynchronous that saves the discrete variables
function_savePreSynchronous_saves(m) ==
    [m EXCEPT !.d.booleanVarsPre = m.d.booleanVars,
              !.wr = @ \cup {<<"booleanVarsPre", i>> : i \in BoolIdx}]

\* oc_latch_function_savePreSynchronous has an empty body
function_savePreSynchronous(m) == m

MaxLog == 2
AssertEqs == (83..88) \cup (134..139) \cup (216..239)

\* the machine record of a finished pass becomes the next state
CommitPass(name, m) ==
    /\ \A k \in AssertEqs : m.lg[k] <= MaxLog
    /\ data' = m.d
    /\ flags' = m.fl
    /\ log' = m.lg
    /\ pass' = [name |-> name, tr |-> m.tr, ab |-> m.ab, wr |-> m.wr,
                sc |-> m.sc, sol |-> m.sol, gout |-> <<>>, lsFail |-> m.lsFail]

Commit(name, m) == CommitPass(name, m) /\ UNCHANGED <<solver, evt>>

\* discreteCall cleared on every way out of the pass, a throw included
EndDiscreteCall_always(m) == [m EXCEPT !.d.discreteCall = FALSE]

\* the statement discreteCall = 0 after the equations, not reached by a
\* pass that threw
EndDiscreteCall(m) == IF m.ab = NoAbort THEN [m EXCEPT !.d.discreteCall = FALSE] ELSE m

functionDAE_run(d, fl, lg, f) ==
    EndDiscreteCall(
        RunEqs(functionLocalKnownVars(
                   Machine([d EXCEPT !.needToIterate = FALSE, !.discreteCall = TRUE],
                           fl, lg, f)),
               functionDAE_eqs))

functionDAE ==
    /\ ~data.initial
    /\ Commit("functionDAE", functionDAE_run(data, flags, log, solver))

\* a continuous pass that raises discreteCall as functionDAE does
functionAlgebraics_run_discrete(d, fl, lg, f) ==
    RunEqs(function_savePreSynchronous(Machine([d EXCEPT !.discreteCall = TRUE], fl, lg, f)),
           functionAlg_system0_eqs)

functionAlgebraics_run(d, fl, lg, f) ==
    RunEqs(function_savePreSynchronous(Machine(d, fl, lg, f)), functionAlg_system0_eqs)

functionAlgebraics ==
    /\ ~data.initial
    /\ Commit("functionAlgebraics", functionAlgebraics_run(data, flags, log, solver))

function_ZeroCrossingsEquations ==
    /\ ~data.initial
    /\ Commit("function_ZeroCrossingsEquations",
              RunEqs(Machine(data, flags, log, solver), function_ZeroCrossingsEquations_eqs))

\* oc_latch_functionODE only counts the call
functionODE ==
    /\ ~data.initial
    /\ Commit("functionODE", functionLocalKnownVars(Machine(data, flags, log, {})))
(***************************************************************************)
(* Initialization callbacks.                                               *)
(***************************************************************************)
\* order of the calls in oc_latch_functionInitialEquations_0
functionInitialEquations_0_eqs ==
    <<1, 2, 3, 4, 5, 6, 7, 8, 9, 10, 11, 12, 13, 14, 15, 16, 23, 122, 132, 105, 33,
      99, 100, 91, 90, 38, 39, 40, 41, 109, 110, 114, 111, 112, 113, 123, 124, 128,
      129, 125, 126, 127, 133, 56, 57, 130, 131, 60, 61, 103, 104, 64, 65, 66, 67,
      68, 69, 70, 71, 72, 73, 74, 75, 76, 77, 78, 79, 80, 81, 82, 88, 87, 86, 85,
      84, 83>>

functionInitialEquations_run(d, fl, lg, f) ==
    EndDiscreteCall(RunEqs(Machine([d EXCEPT !.discreteCall = TRUE], fl, lg, f),
                           functionInitialEquations_0_eqs))

\* the runtime binds the parameters before it evaluates the initial system
functionInitialEquations ==
    /\ data.initial
    /\ data.extObjs.alive
    /\ Commit("functionInitialEquations",
              functionInitialEquations_run(data, flags, log, solver))

\* order of the calls in oc_latch_updateBoundParameters_0
updateBoundParameters_0_eqs ==
    <<140, 141, 142, 143, 144, 145, 146, 147, 148, 149, 150, 151, 152, 153, 154,
      155, 156, 157, 158, 159, 160, 161, 162, 163, 171, 172, 173, 174, 76, 75, 74,
      16, 73, 72, 71, 70, 69, 68, 67, 15, 66, 65, 64, 14, 13, 12, 11, 10, 9, 8, 7,
      6, 5, 4, 3, 2, 1, 216, 217, 218, 219, 220, 221, 222, 223, 224, 225, 226, 227,
      228, 229, 230, 231, 232, 233, 234, 235, 236, 237, 238, 239>>

\* the constant bindings at the head of oc_latch_updateBoundParameters
updateBoundParameters_consts(d) ==
    [d EXCEPT !.integerParameter[0] = 2, !.integerParameter[2] = 1,
              !.realVars[8] = 0, !.realVars[15] = 0, !.realVars[18] = 0,
              !.realVars[55] = 0, !.realParameter[14] = 0, !.realParameter[15] = 0,
              !.realParameter[28] = 1,
              !.booleanParameter[0] = FALSE, !.booleanParameter[1] = FALSE,
              !.booleanParameter[2] = FALSE, !.booleanParameter[3] = FALSE,
              !.booleanParameter[7] = FALSE, !.booleanParameter[8] = FALSE,
              !.booleanParameter[9] = FALSE, !.booleanParameter[10] = FALSE,
              !.integerParameter[1] = 1, !.integerParameter[3] = 3]

updateBoundParameters_run(d, fl, lg) ==
    RunEqs(Machine(updateBoundParameters_consts(d), fl, lg, {}), updateBoundParameters_0_eqs)

updateBoundParameters ==
    /\ data.initial
    /\ Commit("updateBoundParameters", updateBoundParameters_run(data, flags, log))

(***************************************************************************)
(* Zero crossings and relations (oc_latch_05evt.c).                        *)
(***************************************************************************)
Sign(b) == IF b THEN 1 ELSE -1

\* one indicator per relation instead of one per zero crossing
function_ZeroCrossings_gout_perRelation(d) ==
    LET tmp0 == GreaterEqZC(d.realVars[36], d.realParameter[32], d.storedRelations[0])
        tmp1 == GreaterEqZC(d.realVars[38], d.realParameter[33], d.storedRelations[1])
        tmp2 == LessEqZC(d.timeValue, T_01, d.storedRelations[2])
        tmp3 == GreaterEqZC(d.timeValue, T_09, d.storedRelations[3])
        tmp4 == GreaterEqZC(d.timeValue, T_095, d.storedRelations[4])
        tmp5 == LessEqZC(d.timeValue, T_096, d.storedRelations[5])
        tmp6 == GreaterEqZC(d.timeValue, d.realVarsPre[56], d.storedRelations[6])
    IN <<Sign(tmp0), Sign(tmp1), Sign(tmp2), Sign(tmp3), Sign(tmp4), Sign(tmp5),
         Sign(tmp6)>>

\* the reset indicator built with or instead of and
function_ZeroCrossings_gout_or45(d) ==
    LET tmp0 == GreaterEqZC(d.realVars[36], d.realParameter[32], d.storedRelations[0])
        tmp1 == GreaterEqZC(d.realVars[38], d.realParameter[33], d.storedRelations[1])
        tmp2 == LessEqZC(d.timeValue, T_01, d.storedRelations[2])
        tmp3 == GreaterEqZC(d.timeValue, T_09, d.storedRelations[3])
        tmp4 == GreaterEqZC(d.timeValue, T_095, d.storedRelations[4])
        tmp5 == LessEqZC(d.timeValue, T_096, d.storedRelations[5])
        tmp6 == GreaterEqZC(d.timeValue, d.realVarsPre[56], d.storedRelations[6])
    IN <<Sign(tmp0), Sign(tmp1), Sign(tmp2 \/ tmp3), Sign(tmp4 \/ tmp5), Sign(tmp6)>>

function_ZeroCrossings_gout(d) ==
    LET tmp0 == GreaterEqZC(d.realVars[36], d.realParameter[32], d.storedRelations[0])
        tmp1 == GreaterEqZC(d.realVars[38], d.realParameter[33], d.storedRelations[1])
        tmp2 == LessEqZC(d.timeValue, T_01, d.storedRelations[2])
        tmp3 == GreaterEqZC(d.timeValue, T_09, d.storedRelations[3])
        tmp4 == GreaterEqZC(d.timeValue, T_095, d.storedRelations[4])
        tmp5 == LessEqZC(d.timeValue, T_096, d.storedRelations[5])
        tmp6 == GreaterEqZC(d.timeValue, d.realVarsPre[56], d.storedRelations[6])
    IN <<Sign(tmp0), Sign(tmp1), Sign(tmp2 \/ tmp3), Sign(tmp4 /\ tmp5), Sign(tmp6)>>

function_ZeroCrossings ==
    /\ ~data.initial
    /\ pass' = [name |-> "function_ZeroCrossings", tr |-> <<>>, ab |-> NoAbort, wr |-> {},
                sc |-> <<>>, sol |-> {}, gout |-> function_ZeroCrossings_gout(data),
                lsFail |-> {}]
    /\ UNCHANGED <<data, flags, log, solver, evt>>

\* relation 3 compared without the dead band in the zero-crossing branch
function_updateRelations_rel_direct3(d, evalforZeroCross) ==
    IF evalforZeroCross
    THEN [i \in RelIdx |->
            CASE i = 0 -> GreaterEqZC(d.realVars[36], d.realParameter[32], d.storedRelations[0])
              [] i = 1 -> GreaterEqZC(d.realVars[38], d.realParameter[33], d.storedRelations[1])
              [] i = 2 -> LessEqZC(d.timeValue, T_01, d.storedRelations[2])
              [] i = 3 -> d.timeValue >= T_09
              [] i = 4 -> GreaterEqZC(d.timeValue, T_095, d.storedRelations[4])
              [] i = 5 -> LessEqZC(d.timeValue, T_096, d.storedRelations[5])
              [] i = 6 -> GreaterEqZC(d.timeValue, d.realVarsPre[56], d.storedRelations[6])]
    ELSE [i \in RelIdx |->
            CASE i = 0 -> d.realVars[36] >= d.realParameter[32]
              [] i = 1 -> d.realVars[38] >= d.realParameter[33]
              [] i = 2 -> d.timeValue <= T_01
              [] i = 3 -> d.timeValue >= T_09
              [] i = 4 -> d.timeValue >= T_095
              [] i = 5 -> d.timeValue <= T_096
              [] i = 6 -> d.timeValue >= d.realVarsPre[56]]

\* relation 4 compared with > in the direct branch
function_updateRelations_rel_strict4(d, evalforZeroCross) ==
    IF evalforZeroCross
    THEN [i \in RelIdx |->
            CASE i = 0 -> GreaterEqZC(d.realVars[36], d.realParameter[32], d.storedRelations[0])
              [] i = 1 -> GreaterEqZC(d.realVars[38], d.realParameter[33], d.storedRelations[1])
              [] i = 2 -> LessEqZC(d.timeValue, T_01, d.storedRelations[2])
              [] i = 3 -> GreaterEqZC(d.timeValue, T_09, d.storedRelations[3])
              [] i = 4 -> GreaterEqZC(d.timeValue, T_095, d.storedRelations[4])
              [] i = 5 -> LessEqZC(d.timeValue, T_096, d.storedRelations[5])
              [] i = 6 -> GreaterEqZC(d.timeValue, d.realVarsPre[56], d.storedRelations[6])]
    ELSE [i \in RelIdx |->
            CASE i = 0 -> d.realVars[36] >= d.realParameter[32]
              [] i = 1 -> d.realVars[38] >= d.realParameter[33]
              [] i = 2 -> d.timeValue <= T_01
              [] i = 3 -> d.timeValue >= T_09
              [] i = 4 -> d.timeValue > T_095
              [] i = 5 -> d.timeValue <= T_096
              [] i = 6 -> d.timeValue >= d.realVarsPre[56]]

function_updateRelations_rel(d, evalforZeroCross) ==
    IF evalforZeroCross
    THEN [i \in RelIdx |->
            CASE i = 0 -> GreaterEqZC(d.realVars[36], d.realParameter[32], d.storedRelations[0])
              [] i = 1 -> GreaterEqZC(d.realVars[38], d.realParameter[33], d.storedRelations[1])
              [] i = 2 -> LessEqZC(d.timeValue, T_01, d.storedRelations[2])
              [] i = 3 -> GreaterEqZC(d.timeValue, T_09, d.storedRelations[3])
              [] i = 4 -> GreaterEqZC(d.timeValue, T_095, d.storedRelations[4])
              [] i = 5 -> LessEqZC(d.timeValue, T_096, d.storedRelations[5])
              [] i = 6 -> GreaterEqZC(d.timeValue, d.realVarsPre[56], d.storedRelations[6])]
    ELSE [i \in RelIdx |->
            CASE i = 0 -> d.realVars[36] >= d.realParameter[32]
              [] i = 1 -> d.realVars[38] >= d.realParameter[33]
              [] i = 2 -> d.timeValue <= T_01
              [] i = 3 -> d.timeValue >= T_09
              [] i = 4 -> d.timeValue >= T_095
              [] i = 5 -> d.timeValue <= T_096
              [] i = 6 -> d.timeValue >= d.realVarsPre[56]]

function_updateRelations ==
    /\ ~data.initial
    /\ \E evalforZeroCross \in BOOLEAN :
          Commit("function_updateRelations",
                 [Machine([data EXCEPT !.relations =
                              function_updateRelations_rel(data, evalforZeroCross)],
                          flags, log, {})
                    EXCEPT !.wr = {<<"relations", i>> : i \in RelIdx}])

(***************************************************************************)
(* The runtime around the callbacks.  It calls updateBoundParameters and   *)
(* then functionInitialEquations while simulationInfo->initial is set.  It *)
(* ends the initialization after a completed functionInitialEquations,     *)
(* stores the relations and chooses the assertion mode of the simulation;  *)
(* afterwards it calls the simulation callbacks in any order, moves time   *)
(* and saves the pre-values.                                               *)
(***************************************************************************)
TimeGrid == {0, 955}

EnvPass(name) ==
    [name |-> name, tr |-> <<>>, ab |-> NoAbort, wr |-> {}, sc |-> <<>>, sol |-> {},
     gout |-> <<>>, lsFail |-> {}]

AdvanceTime ==
    /\ ~data.initial
    /\ \E t \in TimeGrid : t > data.timeValue /\ data' = [data EXCEPT !.timeValue = t]
    /\ pass' = EnvPass("AdvanceTime")
    /\ UNCHANGED <<flags, log, solver, evt>>

storePreValues ==
    /\ ~data.initial
    /\ pass.name = "functionDAE"
    /\ data' = [data EXCEPT !.realVarsPre = data.realVars,
                            !.booleanVarsPre = data.booleanVars]
    /\ pass' = EnvPass("storePreValues")
    /\ UNCHANGED <<flags, log, solver, evt>>

updateRelationsPre ==
    /\ data' = [data EXCEPT !.relationsPre = data.relations]
    /\ pass' = EnvPass("updateRelationsPre")
    /\ UNCHANGED <<flags, log, solver, evt>>

storeRelations ==
    /\ data' = [data EXCEPT !.storedRelations = data.relations]
    /\ pass' = EnvPass("storeRelations")
    /\ UNCHANGED <<flags, log, solver, evt>>

InitializationDone ==
    /\ data.initial
    /\ pass.name = "functionInitialEquations"
    /\ pass.ab = NoAbort
    /\ \E nta \in BOOLEAN :
          data' = [data EXCEPT !.initial = FALSE, !.noThrowAsserts = nta,
                               !.storedRelations = data.relations]
    /\ pass' = EnvPass("InitializationDone")
    /\ UNCHANGED <<flags, log, solver, evt>>

(***************************************************************************)
(* Initial state: the variable store as the runtime allocates it, with the *)
(* parameter values of one of the parameter sets.                          *)
(***************************************************************************)
RealParameterDefault ==
    [i \in 0..(nParametersReal - 1) |->
        CASE i \in {0, 6, 38, 44, 50, 56} -> 10                          \* R
          [] i \in {1, 2, 3, 7, 8, 9, 39, 40, 41, 45, 46, 47,
                    51, 52, 53, 57, 58, 59} -> 300                         \* T, T_heatPort, T_ref
          [] i = 29 -> 100                                                 \* constantVoltage.V
          [] i \in {32, 33} -> 40                                          \* thresholds
          [] i \in {34, 36} -> 1                                           \* opAmp Slope
          [] i = 11 -> 1                                                   \* capacitor.C
          [] i = 28 -> 1                                                   \* timeScale
          [] i = 23 -> 50 [] i = 24 -> 950 [] i = 25 -> 0                  \* table rows
          [] i = 26 -> 970 [] i = 27 -> 100
          [] OTHER -> 0]

\* a parameter set outside the scope of the model: resistor.alpha is not a
\* number, R1.T_ref and capacitor.C are negative
RealParameterBad ==
    [RealParameterDefault EXCEPT ![42] = NaN, ![3] = -5, ![11] = -1]

ParamCases == {RealParameterDefault, RealParameterBad}

\* start times of the experiment: the default 0.0 and a negative one
StartTimes == {-5, 0}

InitData(p, nta, startTime) ==
    [timeValue |-> startTime,
     realVars |-> [i \in RealIdx |-> 0],
     oldRealVars |-> [i \in RealIdx |-> 0],
     booleanVars |-> [i \in BoolIdx |-> FALSE],
     realVarsPre |-> [i \in RealIdx |-> 0],
     booleanVarsPre |-> [i \in BoolIdx |-> FALSE],
     realParameter |-> p,
     integerParameter |-> [i \in 0..(nParametersInteger - 1) |-> 1],
     booleanParameter |-> [i \in 0..(nParametersBoolean - 1) |-> FALSE],
     relations |-> [i \in RelIdx |-> FALSE],
     relationsPre |-> [i \in RelIdx |-> FALSE],
     storedRelations |-> [i \in RelIdx |-> FALSE],
     initial |-> TRUE,
     discreteCall |-> FALSE,
     needToIterate |-> FALSE,
     noThrowAsserts |-> nta,
     needToReThrow |-> FALSE,
     extObjs |-> NullObj]

\* a run has either parameters outside the scope of the model or a solver
\* that fails or a start time before the table, or none of them
Init ==
    /\ \E p \in ParamCases, nta \in BOOLEAN, t0 \in StartTimes :
          /\ data = InitData(p, nta, t0)
          /\ t0 = 0 \/ p = RealParameterDefault
    /\ flags = [k \in AssertEqs |-> FALSE]
    /\ log = [k \in AssertEqs |-> 0]
    /\ pass = EnvPass("Init")
    /\ solver \in SolverPlans
    /\ solver = {} \/ (data.realParameter = RealParameterDefault /\ data.timeValue = 0)
    /\ evt = [phase |-> "off"]

Next ==
    \/ updateBoundParameters
    \/ functionInitialEquations
    \/ functionDAE
    \/ functionAlgebraics
    \/ functionODE
    \/ function_ZeroCrossingsEquations
    \/ function_ZeroCrossings
    \/ function_updateRelations
    \/ AdvanceTime
    \/ storePreValues
    \/ InitializationDone

Spec == Init /\ [][Next]_vars

(***************************************************************************)
(* Event handling of the runtime (updateDiscreteSystem): at each event     *)
(* time the relations are updated and stored, functionDAE is evaluated,    *)
(* and while a discrete variable differs from its pre-value or a relation  *)
(* changed, the pre-values are stored and functionDAE is evaluated again.  *)
(* evt holds the position in that loop and the counters of the running     *)
(* event iteration.                                                        *)
(***************************************************************************)
EventTimes == {500, 950, 955, 960, 965, 975}

\* cap of the passes of one event iteration
MaxEventIterations == 6

\* checkForDiscreteChanges, checkRelations and needToIterate
Changed(d) ==
    \/ d.needToIterate
    \/ d.relations # d.relationsPre
    \/ d.booleanVars # d.booleanVarsPre
    \/ d.realVars[56] # d.realVarsPre[56]
    \/ d.realVars[57] # d.realVarsPre[57]

InitEvent ==
    /\ \E nta \in BOOLEAN, u1 \in BOOLEAN, u11 \in BOOLEAN :
          data = [InitData(RealParameterDefault, nta, 0)
                    EXCEPT !.booleanParameter[5] = u1, !.booleanParameter[6] = u11]
    /\ flags = [k \in AssertEqs |-> FALSE]
    /\ log = [k \in AssertEqs |-> 0]
    /\ pass = EnvPass("Init")
    /\ solver = {}
    /\ evt = [phase |-> "moved", iter |-> 0, n57 |-> 0, n56 |-> 0, falls |-> 0]

\* head of updateDiscreteSystem: function_updateRelations(data, 1),
\* updateRelationsPre, storeRelations
EventStart ==
    /\ ~data.initial
    /\ evt.phase = "moved"
    /\ data' = [data EXCEPT !.needToIterate = FALSE,
                            !.relations = function_updateRelations_rel(data, TRUE),
                            !.relationsPre = function_updateRelations_rel(data, TRUE),
                            !.storedRelations = function_updateRelations_rel(data, TRUE)]
    /\ evt' = [evt EXCEPT !.phase = "dae", !.iter = 0, !.n57 = 0, !.n56 = 0]
    /\ pass' = EnvPass("EventStart")
    /\ UNCHANGED <<flags, log, solver>>

\* one functionDAE pass of the event iteration
EventDAE ==
    /\ evt.phase = "dae"
    /\ evt.iter < MaxEventIterations
    /\ CommitPass("functionDAE", functionDAE_run(data, flags, log, solver))
    /\ evt' = [evt EXCEPT
                 !.phase = "check",
                 !.iter = @ + 1,
                 !.n57 = @ + (IF <<"realVars", 57>> \in pass'.wr THEN 1 ELSE 0),
                 !.n56 = @ + (IF <<"realVars", 56>> \in pass'.wr THEN 1 ELSE 0),
                 !.falls = @ + (IF /\ data.timeValue >= T_095
                                   /\ data.timeValue <= T_096
                                   /\ data.booleanVars[9]
                                   /\ ~data'.booleanVars[9]
                                THEN 1 ELSE 0)]
    /\ UNCHANGED solver

\* body of the loop: storePreValues, updateRelationsPre
EventIterate ==
    /\ evt.phase = "check"
    /\ pass.ab = NoAbort
    /\ Changed(data)
    /\ data' = [data EXCEPT !.realVarsPre = data.realVars,
                            !.booleanVarsPre = data.booleanVars,
                            !.relationsPre = data.relations]
    /\ evt' = [evt EXCEPT !.phase = "dae"]
    /\ pass' = EnvPass("EventIterate")
    /\ UNCHANGED <<flags, log, solver>>

\* exit of the loop: storeRelations
EventEnd ==
    /\ evt.phase = "check"
    /\ pass.ab = NoAbort
    /\ ~Changed(data)
    /\ data' = [data EXCEPT !.storedRelations = data.relations]
    /\ evt' = [evt EXCEPT !.phase = "idle"]
    /\ pass' = EnvPass("EventEnd")
    /\ UNCHANGED <<flags, log, solver>>

\* the integrator stops at the next event
EventAdvance ==
    /\ evt.phase = "idle"
    /\ \E t \in EventTimes : t > data.timeValue /\ data' = [data EXCEPT !.timeValue = t]
    /\ evt' = [evt EXCEPT !.phase = "moved"]
    /\ pass' = EnvPass("EventAdvance")
    /\ UNCHANGED <<flags, log, solver>>

NextEvent ==
    \/ updateBoundParameters
    \/ functionInitialEquations
    \/ InitializationDone
    \/ EventStart
    \/ EventDAE
    \/ EventIterate
    \/ EventEnd
    \/ EventAdvance

SpecEvent == InitEvent /\ [][NextEvent]_vars

(***************************************************************************)
(* Lifetime of the external table (oc_latch_01exo.c and equation 141).     *)
(* The runtime allocates the array simulationInfo->extObjs with its one    *)
(* entry NULL before the first callback.  Here evt holds the heap of table *)
(* handles: array tells whether extObjs is allocated, handle is the value  *)
(* of extObjs[0] (0 is NULL), the constructor has returned the handles     *)
(* 1..made, and destroyed[h] counts the destructor calls on handle h.      *)
(***************************************************************************)
\* cap of the constructor calls of one run
MaxHandles == 3

InitExo ==
    /\ \E p \in ParamCases, nta \in BOOLEAN, t0 \in StartTimes :
          data = InitData(p, nta, t0)
    /\ flags = [k \in AssertEqs |-> FALSE]
    /\ log = [k \in AssertEqs |-> 0]
    /\ pass = EnvPass("Init")
    /\ solver = {}
    /\ evt = [phase |-> "exo", array |-> TRUE, handle |-> 0, made |-> 0,
              destroyed |-> [h \in 1..MaxHandles |-> 0], fault |-> FALSE]

\* oc_latch_updateBoundParameters with the array allocated: equation 141
\* stores the new handle in extObjs[0] over the handle held there
ExoUpdateBoundParameters ==
    /\ evt.phase = "exo"
    /\ ~evt.fault
    /\ evt.array
    /\ evt.made < MaxHandles
    /\ CommitPass("updateBoundParameters", updateBoundParameters_run(data, flags, log))
    /\ evt' = [evt EXCEPT !.made = @ + 1, !.handle = evt.made + 1]
    /\ UNCHANGED solver

\* oc_latch_updateBoundParameters after the array was freed: equation 141
\* stores through the null pointer extObjs, which is undefined; the process
\* faults at the store, or the store is lost and the pass goes on
ExoUpdateBoundParametersFreed ==
    /\ evt.phase = "exo"
    /\ ~evt.fault
    /\ ~evt.array
    /\ evt.made < MaxHandles
    /\ \/ /\ evt' = [evt EXCEPT !.made = @ + 1, !.fault = TRUE]
          /\ pass' = [EnvPass("updateBoundParameters")
                        EXCEPT !.ab = [eq |-> 141, kind |-> "fault",
                                       time |-> data.timeValue]]
          /\ UNCHANGED <<data, flags, log>>
       \/ /\ evt' = [evt EXCEPT !.made = @ + 1]
          /\ CommitPass("updateBoundParameters",
                        updateBoundParameters_run(data, flags, log))
    /\ UNCHANGED solver

\* oc_latch_callExternalObjectDestructors: the destructor is called on
\* extObjs[0] (it ignores NULL), the array is freed and extObjs set to 0
callExternalObjectDestructors ==
    /\ evt.phase = "exo"
    /\ ~evt.fault
    /\ IF evt.array
       THEN /\ evt' = [evt EXCEPT
                         !.destroyed = IF evt.handle = 0 THEN @
                                       ELSE [@ EXCEPT ![evt.handle] = @ + 1],
                         !.array = FALSE,
                         !.handle = 0]
            /\ data' = [data EXCEPT !.extObjs = NullObj]
       ELSE UNCHANGED <<evt, data>>
    /\ pass' = EnvPass("callExternalObjectDestructors")
    /\ UNCHANGED <<flags, log, solver>>

NextExo ==
    \/ ExoUpdateBoundParameters
    \/ ExoUpdateBoundParametersFreed
    \/ callExternalObjectDestructors

SpecExo == InitExo /\ [][NextExo]_vars

(***************************************************************************)
(* The root finder of the integrator.  Between two events it evaluates the *)
(* relations and the zero-crossing indicators at trial times on both sides *)
(* of a crossing; the relations are stored when an event is handled.       *)
(***************************************************************************)
\* trial times at and next to the thresholds of the time relations
ZCGrid == {0, 1, 99, 100, 101, 899, 900, 901, 949, 950, 951, 959, 960, 961}

\* thresholds of the two comparators: below and at the value of phi
ZCThresholds == {40, 50}

InitZC ==
    /\ \E nta \in BOOLEAN, th \in ZCThresholds :
          data = [InitData(RealParameterDefault, nta, 0)
                    EXCEPT !.realParameter[32] = th, !.realParameter[33] = th]
    /\ flags = [k \in AssertEqs |-> FALSE]
    /\ log = [k \in AssertEqs |-> 0]
    /\ pass = EnvPass("Init")
    /\ solver = {}
    /\ evt = [phase |-> "zc"]

ZCTrialTime ==
    /\ ~data.initial
    /\ evt.phase = "zc"
    /\ \E t \in ZCGrid : t # data.timeValue /\ data' = [data EXCEPT !.timeValue = t]
    /\ pass' = EnvPass("ZCTrialTime")
    /\ UNCHANGED <<flags, log, solver, evt>>

NextZC ==
    \/ updateBoundParameters
    \/ functionInitialEquations
    \/ InitializationDone
    \/ ZCTrialTime
    \/ function_updateRelations
    \/ function_ZeroCrossings
    \/ storeRelations

SpecZC == InitZC /\ [][NextZC]_vars

(***************************************************************************)
(* The torn linear systems on their own (oc_latch_03lsy.c and              *)
(* oc_latch_12jac.c): the runtime's linear solver calls the residual       *)
(* callback and the column function of the Jacobian of a system with trial *)
(* values and seeds of its choice.  A modelica_real 1.0 of a voltage or a  *)
(* current is the number 100 here.                                         *)
(***************************************************************************)
\* the column of system 2 without the derivative of the unknown itself
functionJacLSJac_column_noSeed(d, sysIndex, seed) ==
    CASE sysIndex = 0 ->
           IF d.realVars[4] = 0 THEN [thrown |-> TRUE, resultVars |-> 0]
           ELSE [thrown |-> FALSE,
                 resultVars |-> (-seed) - d.realVars[1] * (seed \div d.realVars[4])]
      [] sysIndex = 1 ->
           IF d.realVars[51] = 0 THEN [thrown |-> TRUE, resultVars |-> 0]
           ELSE [thrown |-> FALSE,
                 resultVars |-> (-seed) - d.realVars[48] * (seed \div d.realVars[51])]
      [] sysIndex = 2 ->
           IF d.realVars[48] = 0 THEN [thrown |-> TRUE, resultVars |-> 0]
           ELSE [thrown |-> FALSE,
                 resultVars |-> -(d.realVars[51] * (seed \div d.realVars[48]))]
      [] sysIndex = 3 ->
           [thrown |-> FALSE,
            resultVars |-> (-(d.realVars[4] * seed)) - d.realVars[1] * seed]

\* oc_latch_functionJacLSJac<sysIndex>_column: resultVars[0] for
\* seedVars[0] = seed, and the equation index of a division by zero
functionJacLSJac_column(d, sysIndex, seed) ==
    CASE sysIndex = 0 ->
           IF d.realVars[4] = 0 THEN [thrown |-> TRUE, resultVars |-> 0]
           ELSE [thrown |-> FALSE,
                 resultVars |-> (-seed) - d.realVars[1] * (seed \div d.realVars[4])]
      [] sysIndex = 1 ->
           IF d.realVars[51] = 0 THEN [thrown |-> TRUE, resultVars |-> 0]
           ELSE [thrown |-> FALSE,
                 resultVars |-> (-seed) - d.realVars[48] * (seed \div d.realVars[51])]
      [] sysIndex = 2 ->
           IF d.realVars[48] = 0 THEN [thrown |-> TRUE, resultVars |-> 0]
           ELSE [thrown |-> FALSE,
                 resultVars |-> (-(d.realVars[51] * (seed \div d.realVars[48]))) - seed]
      [] sysIndex = 3 ->
           [thrown |-> FALSE,
            resultVars |-> (-(d.realVars[4] * seed)) - d.realVars[1] * seed]

\* oc_latch_initialAnalyticJacobianLSJac<n>: one seed, one result and
\* three temporaries, and the DATA the column function is called with
JacMachine(d, seed) ==
    [d |-> d,
     seedVars |-> [i \in 0..0 |-> seed],
     resultVars |-> [i \in 0..0 |-> 0],
     tmpVars |-> [i \in 0..2 |-> 0],
     thrown |-> FALSE,
     wr |-> {}]

SetTmpVar(s, i, v) == [s EXCEPT !.tmpVars[i] = v, !.wr = @ \cup {<<"tmpVars", i>>}]
SetResultVar(s, i, v) == [s EXCEPT !.resultVars[i] = v, !.wr = @ \cup {<<"resultVars", i>>}]

\* the DIVISION macro into tmpVars[i]
DivTmpVar(s, i, a, b) ==
    IF b = 0 THEN [s EXCEPT !.thrown = TRUE] ELSE SetTmpVar(s, i, a \div b)

\* equation 118 storing the derivative of R1.v in R1.v itself
eqFunctionJac_primary(s, k) ==
    CASE k = 20 -> DivTmpVar(s, 0, s.seedVars[0], s.d.realVars[4])
      [] k = 21 -> SetTmpVar(s, 1, s.d.realVars[1] * s.tmpVars[0])
      [] k = 22 -> SetResultVar(s, 0, (-s.seedVars[0]) - s.tmpVars[1])
      [] k = 30 -> DivTmpVar(s, 0, s.seedVars[0], s.d.realVars[51])
      [] k = 31 -> SetTmpVar(s, 1, s.d.realVars[48] * s.tmpVars[0])
      [] k = 32 -> SetResultVar(s, 0, (-s.seedVars[0]) - s.tmpVars[1])
      [] k = 95 -> DivTmpVar(s, 0, s.seedVars[0], s.d.realVars[48])
      [] k = 96 -> SetTmpVar(s, 1, s.d.realVars[51] * s.tmpVars[0])
      [] k = 97 -> SetResultVar(s, 0, (-s.tmpVars[1]) - s.seedVars[0])
      [] k = 118 -> [SetTmpVar(s, 0, s.d.realVars[1] * s.seedVars[0])
                       EXCEPT !.d.realVars[2] = s.d.realVars[1] * s.seedVars[0]]
      [] k = 119 -> SetTmpVar(s, 1, s.d.realVars[4] * s.seedVars[0])
      [] k = 120 -> SetResultVar(s, 0, (-s.tmpVars[1]) - s.tmpVars[0])

\* the equations of the four Jacobians (oc_latch_12jac.c)
eqFunctionJac(s, k) ==
    CASE k = 20 -> DivTmpVar(s, 0, s.seedVars[0], s.d.realVars[4])
      [] k = 21 -> SetTmpVar(s, 1, s.d.realVars[1] * s.tmpVars[0])
      [] k = 22 -> SetResultVar(s, 0, (-s.seedVars[0]) - s.tmpVars[1])
      [] k = 30 -> DivTmpVar(s, 0, s.seedVars[0], s.d.realVars[51])
      [] k = 31 -> SetTmpVar(s, 1, s.d.realVars[48] * s.tmpVars[0])
      [] k = 32 -> SetResultVar(s, 0, (-s.seedVars[0]) - s.tmpVars[1])
      [] k = 95 -> DivTmpVar(s, 0, s.seedVars[0], s.d.realVars[48])
      [] k = 96 -> SetTmpVar(s, 1, s.d.realVars[51] * s.tmpVars[0])
      [] k = 97 -> SetResultVar(s, 0, (-s.tmpVars[1]) - s.seedVars[0])
      [] k = 118 -> SetTmpVar(s, 0, s.d.realVars[1] * s.seedVars[0])
      [] k = 119 -> SetTmpVar(s, 1, s.d.realVars[4] * s.seedVars[0])
      [] k = 120 -> SetResultVar(s, 0, (-s.tmpVars[1]) - s.tmpVars[0])

functionJacLSJac_column_eqs(sysIndex) ==
    CASE sysIndex = 0 -> <<20, 21, 22>>
      [] sysIndex = 1 -> <<30, 31, 32>>
      [] sysIndex = 2 -> <<95, 96, 97>>
      [] sysIndex = 3 -> <<118, 119, 120>>

JacStep(s, k) == IF s.thrown THEN s ELSE eqFunctionJac(s, k)

\* oc_latch_functionJacLSJac<sysIndex>_column, equation by equation
functionJacLSJac_column_run(d, sysIndex, seed) ==
    JacStep(JacStep(JacStep(JacMachine(d, seed),
                            functionJacLSJac_column_eqs(sysIndex)[1]),
                    functionJacLSJac_column_eqs(sysIndex)[2]),
            functionJacLSJac_column_eqs(sysIndex)[3])

\* oc_latch_initialLinearSystem: the equation and the Jacobian registered
\* for each system index (the residual callback is residualFunc above)
linearSystemData ==
    [sysIndex \in 0..3 |->
        [equationIndex |-> CASE sysIndex = 0 -> 23 [] sysIndex = 1 -> 33
                             [] sysIndex = 2 -> 98 [] sysIndex = 3 -> 121,
         size |-> 1,
         jacobianIndex |-> sysIndex]]

\* values of the resistances R_actual and of constantVoltage.V for which
\* the systems have a root on the grid
LSResistances == {10, 50}
LSVoltages == {100, 600}

\* trial values and seeds: whole volts and amperes
LSTrials == {-100, 0, 100}
LSSeeds == {100}

InitLS ==
    /\ \E Ra \in LSResistances, Rb \in LSResistances, V \in LSVoltages :
          /\ V % (Ra + Rb) = 0
          /\ data = [InitData(RealParameterDefault, FALSE, 0)
                       EXCEPT !.realParameter[29] = V,
                              !.realVars[1] = Ra, !.realVars[48] = Ra,
                              !.realVars[4] = Rb, !.realVars[51] = Rb,
                              !.oldRealVars = [i \in RealIdx |-> i],
                              !.initial = FALSE]
    /\ flags = [k \in AssertEqs |-> FALSE]
    /\ log = [k \in AssertEqs |-> 0]
    /\ pass = [name |-> "Init"]
    /\ solver = {}
    /\ evt = [phase |-> "ls"]

\* one call of the residual callback of a system
LSResidual ==
    /\ evt.phase = "ls"
    /\ \E sysIndex \in 0..3, x \in LSTrials :
          LET m == residualFunc(Machine(data, flags, log, solver), sysIndex, x)
          IN /\ data' = m.d
             /\ pass' = [name |-> "residualFunc", sysIndex |-> sysIndex, x |-> x,
                         res |-> m.res, ab |-> m.ab]
    /\ UNCHANGED <<flags, log, solver, evt>>

\* one call of the column function of a system
LSJacColumn ==
    /\ evt.phase = "ls"
    /\ \E sysIndex \in 0..3, seed \in LSSeeds :
          LET s == functionJacLSJac_column_run(data, sysIndex, seed)
          IN /\ data' = s.d
             /\ pass' = [name |-> "functionJacLSJac_column", sysIndex |-> sysIndex,
                         seed |-> seed,
                         column |-> functionJacLSJac_column(data, sysIndex, seed),
                         jacobian |-> [seedVars |-> s.seedVars,
                                       resultVars |-> s.resultVars,
                                       tmpVars |-> s.tmpVars],
                         thrown |-> s.thrown, wr |-> s.wr]
    /\ UNCHANGED <<flags, log, solver, evt>>

\* one equation function of a linear system: the solver and the store of
\* its solution
LSEquation ==
    /\ evt.phase = "ls"
    /\ \E k \in {23, 33, 98, 121} :
          LET m == Step(Machine(data, flags, log, solver), k)
          IN /\ data' = m.d
             /\ pass' = [name |-> "eqFunction", eq |-> k, ab |-> m.ab, sol |-> m.sol,
                         sc |-> m.sc, aux |-> m.aux]
    /\ UNCHANGED <<flags, log, solver, evt>>

NextLS ==
    \/ LSResidual
    \/ LSJacColumn
    \/ LSEquation

SpecLS == InitLS /\ [][NextLS]_vars

(***************************************************************************)
(* What each generated equation reads and assigns: r holds the variables,  *)
(* parameters and pre-values its body reads, w the ones it assigns, each   *)
(* named as in the write set of a pass.  A value the body assigns before   *)
(* it reads it is not in r.                                                *)
(***************************************************************************)
\* equations of oc_latch_06inz.c
EqAccessInz(k) ==
    CASE k = 1 -> [r |-> {},
                    w |-> {<<"realVars", 22>>}]
      [] k = 2 -> [r |-> {},
                    w |-> {<<"realVars", 29>>}]
      [] k = 3 -> [r |-> {},
                    w |-> {<<"realVars", 54>>}]
      [] k = 4 -> [r |-> {},
                    w |-> {<<"realVars", 25>>}]
      [] k = 5 -> [r |-> {},
                    w |-> {<<"realVars", 33>>}]
      [] k = 6 -> [r |-> {},
                    w |-> {<<"realVars", 7>>}]
      [] k = 7 -> [r |-> {<<"realParameter", 29>>},
                    w |-> {<<"realVars", 24>>}]
      [] k = 8 -> [r |-> {<<"realParameter", 29>>},
                    w |-> {<<"realVars", 31>>}]
      [] k = 9 -> [r |-> {<<"realParameter", 56>>, <<"realParameter", 57>>, <<"realParameter", 59>>, <<"realParameter", 60>>},
                    w |-> {<<"realVars", 51>>}]
      [] k = 10 -> [r |-> {<<"realParameter", 50>>, <<"realParameter", 51>>, <<"realParameter", 53>>, <<"realParameter", 54>>},
                    w |-> {<<"realVars", 48>>}]
      [] k = 11 -> [r |-> {<<"realParameter", 44>>, <<"realParameter", 45>>, <<"realParameter", 47>>, <<"realParameter", 48>>},
                    w |-> {<<"realVars", 44>>}]
      [] k = 12 -> [r |-> {<<"realParameter", 38>>, <<"realParameter", 39>>, <<"realParameter", 41>>, <<"realParameter", 42>>},
                    w |-> {<<"realVars", 40>>}]
      [] k = 13 -> [r |-> {<<"realParameter", 6>>, <<"realParameter", 7>>, <<"realParameter", 9>>, <<"realParameter", 10>>},
                    w |-> {<<"realVars", 4>>}]
      [] k = 14 -> [r |-> {<<"realParameter", 0>>, <<"realParameter", 1>>, <<"realParameter", 3>>, <<"realParameter", 4>>},
                    w |-> {<<"realVars", 1>>}]
      [] k = 15 -> [r |-> {<<"realParameter", 34>>},
                    w |-> {<<"realVars", 23>>}]
      [] k = 16 -> [r |-> {<<"realParameter", 36>>},
                    w |-> {<<"realVars", 30>>}]
      [] k = 23 -> [r |-> {<<"realParameter", 29>>, <<"realVars", 1>>, <<"realVars", 4>>},
                    w |-> {<<"realVars", 2>>, <<"realVars", 5>>, <<"realVars", 6>>}]
      [] k = 33 -> [r |-> {<<"realParameter", 29>>, <<"realVars", 48>>, <<"realVars", 51>>},
                    w |-> {<<"realVars", 49>>, <<"realVars", 52>>, <<"realVars", 53>>}]
      [] k = 38 -> [r |-> {<<"extObjs", 0>>, <<"realVars", 9>>},
                    w |-> {<<"realVars", 57>>}]
      [] k = 39 -> [r |-> {<<"realVars", 57>>},
                    w |-> {<<"realVars", 56>>}]
      [] k = 40 -> [r |-> {},
                    w |-> {<<"realVarsPre", 57>>}]
      [] k = 41 -> [r |-> {<<"extObjs", 0>>, <<"realVars", 9>>, <<"realVars", 57>>, <<"realVarsPre", 57>>},
                    w |-> {<<"realVars", 10>>}]
      [] k = 56 -> [r |-> {<<"booleanParameter", 6>>},
                    w |-> {<<"booleanVarsPre", 9>>}]
      [] k = 57 -> [r |-> {<<"booleanVarsPre", 9>>},
                    w |-> {<<"booleanVars", 10>>}]
      [] k = 60 -> [r |-> {<<"booleanParameter", 5>>},
                    w |-> {<<"booleanVarsPre", 8>>}]
      [] k = 61 -> [r |-> {<<"booleanVarsPre", 8>>},
                    w |-> {<<"booleanVars", 5>>}]
      [] k = 64 -> [r |-> {},
                    w |-> {<<"realVars", 12>>}]
      [] k = 65 -> [r |-> {},
                    w |-> {<<"realVars", 26>>}]
      [] k = 66 -> [r |-> {},
                    w |-> {<<"realVars", 21>>}]
      [] k = 67 -> [r |-> {},
                    w |-> {<<"realVars", 13>>}]
      [] k = 68 -> [r |-> {},
                    w |-> {<<"realVars", 14>>}]
      [] k = 69 -> [r |-> {},
                    w |-> {<<"realVars", 16>>}]
      [] k = 70 -> [r |-> {},
                    w |-> {<<"realVars", 17>>}]
      [] k = 71 -> [r |-> {},
                    w |-> {<<"realVars", 35>>}]
      [] k = 72 -> [r |-> {},
                    w |-> {<<"realVars", 32>>}]
      [] k = 73 -> [r |-> {},
                    w |-> {<<"realVars", 28>>}]
      [] k = 74 -> [r |-> {},
                    w |-> {<<"realVars", 19>>}]
      [] k = 75 -> [r |-> {},
                    w |-> {<<"realVars", 37>>}]
      [] k = 76 -> [r |-> {},
                    w |-> {<<"realVars", 20>>}]
      [] k = 77 -> [r |-> {},
                    w |-> {<<"realVars", 8>>}]
      [] k = 78 -> [r |-> {},
                    w |-> {<<"realVars", 55>>}]
      [] k = 79 -> [r |-> {},
                    w |-> {<<"realVars", 18>>}]
      [] k = 80 -> [r |-> {},
                    w |-> {<<"realVars", 15>>}]
      [] k = 81 -> [r |-> {},
                    w |-> {<<"realVarsPre", 56>>}]
      [] k = 82 -> [r |-> {<<"realVarsPre", 56>>},
                    w |-> {<<"booleanVars", 0>>}]
      [] k = 83 -> [r |-> {<<"realParameter", 1>>, <<"realParameter", 3>>, <<"realParameter", 4>>},
                    w |-> {}]
      [] k = 84 -> [r |-> {<<"realParameter", 7>>, <<"realParameter", 9>>, <<"realParameter", 10>>},
                    w |-> {}]
      [] k = 85 -> [r |-> {<<"realParameter", 39>>, <<"realParameter", 41>>, <<"realParameter", 42>>},
                    w |-> {}]
      [] k = 86 -> [r |-> {<<"realParameter", 45>>, <<"realParameter", 47>>, <<"realParameter", 48>>},
                    w |-> {}]
      [] k = 87 -> [r |-> {<<"realParameter", 51>>, <<"realParameter", 53>>, <<"realParameter", 54>>},
                    w |-> {}]
      [] k = 88 -> [r |-> {<<"realParameter", 57>>, <<"realParameter", 59>>, <<"realParameter", 60>>},
                    w |-> {}]

\* equations of oc_latch.c; the equations of a linear system read and assign
\* what its residual callback and the inner equations read and assign
EqAccessSim(k) ==
    CASE k = 89 -> [r |-> {<<"realVarsPre", 56>>},
                    w |-> {<<"booleanVars", 0>>}]
      [] k = 90 -> [r |-> {},
                    w |-> {<<"booleanVars", 11>>}]
      [] k = 91 -> [r |-> {},
                    w |-> {<<"booleanVars", 2>>}]
      [] k = 98 -> [r |-> {<<"realParameter", 29>>, <<"realVars", 48>>, <<"realVars", 51>>},
                    w |-> {<<"realVars", 49>>, <<"realVars", 52>>, <<"realVars", 53>>}]
      [] k = 99 -> [r |-> {<<"realVars", 49>>, <<"realVars", 52>>},
                    w |-> {<<"realVars", 47>>}]
      [] k = 100 -> [r |-> {<<"realVars", 52>>, <<"realVars", 53>>},
                    w |-> {<<"realVars", 50>>}]
      [] k = 101 -> [r |-> {<<"booleanVarsPre", 9>>},
                    w |-> {<<"booleanVars", 10>>}]
      [] k = 102 -> [r |-> {<<"booleanVarsPre", 8>>},
                    w |-> {<<"booleanVars", 5>>}]
      [] k = 103 -> [r |-> {<<"booleanVars", 5>>, <<"booleanVars", 10>>},
                    w |-> {<<"booleanVars", 1>>}]
      [] k = 104 -> [r |-> {<<"booleanVars", 1>>, <<"booleanVars", 2>>},
                    w |-> {<<"booleanVars", 8>>}]
      [] k = 105 -> [r |-> {},
                    w |-> {<<"realVars", 9>>}]
      [] k = 106 -> [r |-> {<<"booleanVars", 0>>, <<"booleanVarsPre", 0>>, <<"extObjs", 0>>, <<"realVars", 9>>},
                    w |-> {<<"realVars", 57>>}]
      [] k = 107 -> [r |-> {<<"extObjs", 0>>, <<"realVars", 9>>, <<"realVars", 57>>, <<"realVarsPre", 57>>},
                    w |-> {<<"realVars", 10>>}]
      [] k = 108 -> [r |-> {<<"booleanVars", 0>>, <<"booleanVarsPre", 0>>, <<"realVars", 57>>},
                    w |-> {<<"realVars", 56>>}]
      [] k = 109 -> [r |-> {<<"realVars", 10>>, <<"realVars", 53>>},
                    w |-> {<<"realVars", 34>>}]
      [] k = 110 -> [r |-> {<<"realParameter", 29>>, <<"realVars", 30>>, <<"realVars", 31>>, <<"realVars", 34>>},
                    w |-> {<<"realVars", 38>>}]
      [] k = 111 -> [r |-> {<<"realParameter", 29>>, <<"realVars", 38>>},
                    w |-> {<<"realVars", 46>>}]
      [] k = 112 -> [r |-> {<<"realVars", 44>>, <<"realVars", 46>>},
                    w |-> {<<"realVars", 45>>}]
      [] k = 113 -> [r |-> {<<"realVars", 45>>, <<"realVars", 46>>},
                    w |-> {<<"realVars", 43>>}]
      [] k = 114 -> [r |-> {<<"realParameter", 33>>, <<"realVars", 38>>},
                    w |-> {<<"booleanVars", 3>>}]
      [] k = 121 -> [r |-> {<<"realParameter", 29>>, <<"realVars", 1>>, <<"realVars", 4>>},
                    w |-> {<<"realVars", 2>>, <<"realVars", 5>>, <<"realVars", 6>>}]
      [] k = 122 -> [r |-> {<<"realVars", 2>>, <<"realVars", 5>>},
                    w |-> {<<"realVars", 0>>}]
      [] k = 123 -> [r |-> {<<"realVars", 6>>, <<"realVars", 10>>},
                    w |-> {<<"realVars", 27>>}]
      [] k = 124 -> [r |-> {<<"realParameter", 29>>, <<"realVars", 23>>, <<"realVars", 24>>, <<"realVars", 27>>},
                    w |-> {<<"realVars", 36>>}]
      [] k = 125 -> [r |-> {<<"realParameter", 29>>, <<"realVars", 36>>},
                    w |-> {<<"realVars", 42>>}]
      [] k = 126 -> [r |-> {<<"realVars", 40>>, <<"realVars", 42>>},
                    w |-> {<<"realVars", 41>>}]
      [] k = 127 -> [r |-> {<<"realVars", 41>>, <<"realVars", 42>>},
                    w |-> {<<"realVars", 39>>}]
      [] k = 128 -> [r |-> {<<"realParameter", 32>>, <<"realVars", 36>>},
                    w |-> {<<"booleanVars", 4>>}]
      [] k = 129 -> [r |-> {<<"booleanVars", 3>>, <<"booleanVars", 4>>},
                    w |-> {<<"booleanVars", 6>>}]
      [] k = 130 -> [r |-> {<<"booleanVars", 6>>, <<"booleanVars", 10>>},
                    w |-> {<<"booleanVars", 7>>}]
      [] k = 131 -> [r |-> {<<"booleanVars", 7>>, <<"booleanVars", 11>>},
                    w |-> {<<"booleanVars", 9>>}]
      [] k = 132 -> [r |-> {<<"realVars", 5>>, <<"realVars", 6>>},
                    w |-> {<<"realVars", 3>>}]
      [] k = 133 -> [r |-> {<<"realVars", 5>>, <<"realVars", 41>>, <<"realVars", 45>>, <<"realVars", 52>>},
                    w |-> {<<"realVars", 11>>}]
      [] k = 134 -> [r |-> {<<"realParameter", 1>>, <<"realParameter", 3>>, <<"realParameter", 4>>},
                    w |-> {}]
      [] k = 135 -> [r |-> {<<"realParameter", 7>>, <<"realParameter", 9>>, <<"realParameter", 10>>},
                    w |-> {}]
      [] k = 136 -> [r |-> {<<"realParameter", 39>>, <<"realParameter", 41>>, <<"realParameter", 42>>},
                    w |-> {}]
      [] k = 137 -> [r |-> {<<"realParameter", 45>>, <<"realParameter", 47>>, <<"realParameter", 48>>},
                    w |-> {}]
      [] k = 138 -> [r |-> {<<"realParameter", 51>>, <<"realParameter", 53>>, <<"realParameter", 54>>},
                    w |-> {}]
      [] k = 139 -> [r |-> {<<"realParameter", 57>>, <<"realParameter", 59>>, <<"realParameter", 60>>},
                    w |-> {}]

\* equations of oc_latch_08bnd.c
EqAccessBnd(k) ==
    CASE k = 140 -> [r |-> {<<"realParameter", 17>>},
                    w |-> {<<"realParameter", 16>>}]
      [] k = 141 -> [r |-> {<<"realParameter", 16>>, <<"realParameter", 17>>, <<"realParameter", 22>>, <<"realParameter", 23>>, <<"realParameter", 24>>, <<"realParameter", 25>>, <<"realParameter", 26>>, <<"realParameter", 27>>},
                    w |-> {<<"extObjs", 0>>}]
      [] k = 142 -> [r |-> {<<"realParameter", 29>>},
                    w |-> {<<"realParameter", 13>>}]
      [] k = 143 -> [r |-> {<<"realParameter", 29>>},
                    w |-> {<<"realParameter", 55>>}]
      [] k = 144 -> [r |-> {<<"realParameter", 29>>},
                    w |-> {<<"realParameter", 30>>}]
      [] k = 145 -> [r |-> {<<"realParameter", 29>>},
                    w |-> {<<"realParameter", 37>>}]
      [] k = 146 -> [r |-> {<<"realParameter", 29>>},
                    w |-> {<<"realParameter", 49>>}]
      [] k = 147 -> [r |-> {<<"realParameter", 29>>},
                    w |-> {<<"realParameter", 43>>}]
      [] k = 148 -> [r |-> {<<"realParameter", 29>>},
                    w |-> {<<"realParameter", 35>>}]
      [] k = 149 -> [r |-> {<<"realParameter", 29>>},
                    w |-> {<<"realParameter", 5>>}]
      [] k = 150 -> [r |-> {<<"realParameter", 29>>},
                    w |-> {<<"realParameter", 12>>}]
      [] k = 151 -> [r |-> {<<"realParameter", 29>>},
                    w |-> {<<"realParameter", 31>>}]
      [] k = 152 -> [r |-> {<<"realParameter", 3>>},
                    w |-> {<<"realParameter", 1>>}]
      [] k = 153 -> [r |-> {<<"realParameter", 1>>},
                    w |-> {<<"realParameter", 2>>}]
      [] k = 154 -> [r |-> {<<"realParameter", 9>>},
                    w |-> {<<"realParameter", 7>>}]
      [] k = 155 -> [r |-> {<<"realParameter", 7>>},
                    w |-> {<<"realParameter", 8>>}]
      [] k = 156 -> [r |-> {<<"realParameter", 41>>},
                    w |-> {<<"realParameter", 39>>}]
      [] k = 157 -> [r |-> {<<"realParameter", 39>>},
                    w |-> {<<"realParameter", 40>>}]
      [] k = 158 -> [r |-> {<<"realParameter", 47>>},
                    w |-> {<<"realParameter", 45>>}]
      [] k = 159 -> [r |-> {<<"realParameter", 45>>},
                    w |-> {<<"realParameter", 46>>}]
      [] k = 160 -> [r |-> {<<"realParameter", 53>>},
                    w |-> {<<"realParameter", 51>>}]
      [] k = 161 -> [r |-> {<<"realParameter", 51>>},
                    w |-> {<<"realParameter", 52>>}]
      [] k = 162 -> [r |-> {<<"realParameter", 59>>},
                    w |-> {<<"realParameter", 57>>}]
      [] k = 163 -> [r |-> {<<"realParameter", 57>>},
                    w |-> {<<"realParameter", 58>>}]
      [] k = 171 -> [r |-> {<<"extObjs", 0>>},
                    w |-> {<<"realParameter", 19>>}]
      [] k = 172 -> [r |-> {<<"extObjs", 0>>},
                    w |-> {<<"realParameter", 21>>}]
      [] k = 173 -> [r |-> {<<"realParameter", 19>>},
                    w |-> {<<"realParameter", 18>>}]
      [] k = 174 -> [r |-> {<<"realParameter", 21>>},
                    w |-> {<<"realParameter", 20>>}]
      [] k = 216 -> [r |-> {<<"realParameter", 3>>},
                    w |-> {}]
      [] k = 217 -> [r |-> {<<"realParameter", 1>>},
                    w |-> {}]
      [] k = 218 -> [r |-> {<<"realParameter", 2>>},
                    w |-> {}]
      [] k = 219 -> [r |-> {<<"realParameter", 9>>},
                    w |-> {}]
      [] k = 220 -> [r |-> {<<"realParameter", 7>>},
                    w |-> {}]
      [] k = 221 -> [r |-> {<<"realParameter", 8>>},
                    w |-> {}]
      [] k = 222 -> [r |-> {<<"realParameter", 41>>},
                    w |-> {}]
      [] k = 223 -> [r |-> {<<"realParameter", 39>>},
                    w |-> {}]
      [] k = 224 -> [r |-> {<<"realParameter", 40>>},
                    w |-> {}]
      [] k = 225 -> [r |-> {<<"realParameter", 47>>},
                    w |-> {}]
      [] k = 226 -> [r |-> {<<"realParameter", 45>>},
                    w |-> {}]
      [] k = 227 -> [r |-> {<<"realParameter", 46>>},
                    w |-> {}]
      [] k = 228 -> [r |-> {<<"realParameter", 53>>},
                    w |-> {}]
      [] k = 229 -> [r |-> {<<"realParameter", 51>>},
                    w |-> {}]
      [] k = 230 -> [r |-> {<<"realParameter", 52>>},
                    w |-> {}]
      [] k = 231 -> [r |-> {<<"realParameter", 59>>},
                    w |-> {}]
      [] k = 232 -> [r |-> {<<"realParameter", 57>>},
                    w |-> {}]
      [] k = 233 -> [r |-> {<<"realParameter", 58>>},
                    w |-> {}]
      [] k = 234 -> [r |-> {<<"integerParameter", 4>>},
                    w |-> {}]
      [] k = 235 -> [r |-> {<<"realParameter", 28>>},
                    w |-> {}]
      [] k = 236 -> [r |-> {<<"integerParameter", 1>>},
                    w |-> {}]
      [] k = 237 -> [r |-> {<<"integerParameter", 3>>},
                    w |-> {}]
      [] k = 238 -> [r |-> {<<"integerParameter", 2>>},
                    w |-> {}]
      [] k = 239 -> [r |-> {<<"realParameter", 11>>},
                    w |-> {}]

EqAccess(k) ==
    IF k < 89 THEN EqAccessInz(k)
    ELSE IF k < 140 THEN EqAccessSim(k)
    ELSE EqAccessBnd(k)

(***************************************************************************)
(* The five equation sequences of a run, one equation at a time: the       *)
(* bound parameters, the initial equations, a discrete pass, a continuous  *)
(* pass and the zero-crossing equations.  evt holds the running sequence,  *)
(* the number of its equations already evaluated and what they assigned.   *)
(***************************************************************************)
OrderSeqs ==
    <<updateBoundParameters_0_eqs, functionInitialEquations_0_eqs, functionDAE_eqs,
      functionAlg_system0_eqs, function_ZeroCrossingsEquations_eqs>>

InitOrder ==
    /\ \E nta \in BOOLEAN :
          data = updateBoundParameters_consts(InitData(RealParameterDefault, nta, 0))
    /\ flags = [k \in AssertEqs |-> FALSE]
    /\ log = [k \in AssertEqs |-> 0]
    /\ pass = [name |-> "updateBoundParameters"]
    /\ solver = {}
    /\ evt = [phase |-> "order", seq |-> 1, pos |-> 0, assigned |-> {}]

\* the next call of an equation function in the running sequence
OrderStep ==
    /\ evt.phase = "order"
    /\ evt.pos < Len(OrderSeqs[evt.seq])
    /\ LET k == OrderSeqs[evt.seq][evt.pos + 1]
           m == Step(Machine(data, flags, log, solver), k)
       IN /\ data' = m.d
          /\ flags' = m.fl
          /\ log' = m.lg
          /\ pass' = [name |-> "eqFunction", eq |-> k, ab |-> m.ab, wr |-> m.wr,
                    sc |-> m.sc]
          /\ evt' = [evt EXCEPT !.pos = @ + 1, !.assigned = @ \cup EqAccess(k).w]
    /\ UNCHANGED solver

\* the end of a sequence and the head of the callback of the next one
OrderNextSequence ==
    /\ evt.phase = "order"
    /\ evt.pos = Len(OrderSeqs[evt.seq])
    /\ evt.seq < Len(OrderSeqs)
    /\ data' = CASE evt.seq = 1 -> [data EXCEPT !.discreteCall = TRUE]
                 [] evt.seq = 2 -> [data EXCEPT !.initial = FALSE,
                                                !.storedRelations = data.relations,
                                                !.needToIterate = FALSE,
                                                !.discreteCall = TRUE]
                 [] OTHER -> [data EXCEPT !.discreteCall = FALSE]
    /\ pass' = [name |-> <<"functionInitialEquations", "functionDAE",
                           "functionAlgebraics",
                           "function_ZeroCrossingsEquations">>[evt.seq]]
    /\ evt' = [evt EXCEPT !.seq = @ + 1, !.pos = 0, !.assigned = {}]
    /\ UNCHANGED <<flags, log, solver>>

NextOrder ==
    \/ OrderStep
    \/ OrderNextSequence

SpecOrder == InitOrder /\ [][NextOrder]_vars

(***************************************************************************)
(* The latch on its own: runs that start from each pair of start values    *)
(* of pre1.u and pre11.u and visit times inside and outside the enable     *)
(* and reset pulses, with the pre-values stored after any functionDAE.     *)
(***************************************************************************)
\* a time between the pulses, one inside the reset pulse, one after it
LatchTimes == {500, 955, 975}

InitLatch ==
    /\ \E u1 \in BOOLEAN, u11 \in BOOLEAN :
          data = [InitData(RealParameterDefault, TRUE, 0)
                    EXCEPT !.booleanParameter[5] = u1, !.booleanParameter[6] = u11]
    /\ flags = [k \in AssertEqs |-> FALSE]
    /\ log = [k \in AssertEqs |-> 0]
    /\ pass = EnvPass("Init")
    /\ solver = {}
    /\ evt = [phase |-> "latch"]

\* the integrator moves to a later time
LatchAdvance ==
    /\ ~data.initial
    /\ evt.phase = "latch"
    /\ \E t \in LatchTimes : t > data.timeValue /\ data' = [data EXCEPT !.timeValue = t]
    /\ pass' = EnvPass("LatchAdvance")
    /\ UNCHANGED <<flags, log, solver, evt>>

NextLatch ==
    \/ updateBoundParameters
    \/ functionInitialEquations
    \/ InitializationDone
    \/ LatchAdvance
    \/ functionDAE
    \/ functionAlgebraics
    \/ storePreValues

SpecLatch == InitLatch /\ [][NextLatch]_vars

(***************************************************************************)
(* Several runs in one process: the static flags of the assertion          *)
(* functions and the log outlive the DATA instance, which each run         *)
(* allocates anew with its own parameter values.                           *)
(***************************************************************************)
MaxRuns == 3

\* the parameter sets of the runs; the third one violates the same
\* constraints as RealParameterBad with another value of R1.T_ref, the
\* fourth one only the constraint of capacitor.C
RunParams ==
    ParamCases \cup {[RealParameterBad EXCEPT ![3] = -7],
                     [RealParameterDefault EXCEPT ![11] = -1]}

InitRuns ==
    /\ \E p \in RunParams, nta \in BOOLEAN : data = InitData(p, nta, 0)
    /\ flags = [k \in AssertEqs |-> FALSE]
    /\ log = [k \in AssertEqs |-> 0]
    /\ pass = EnvPass("Init")
    /\ solver = {}
    /\ evt = [phase |-> "runs", run |-> 1, old |-> 0]

\* a further run in the same process: a new DATA instance; old keeps
\* R1.T_ref of the instance before
NewRun ==
    /\ evt.phase = "runs"
    /\ evt.run < MaxRuns
    /\ pass.name = "updateBoundParameters"
    /\ \E p \in RunParams, nta \in BOOLEAN : data' = InitData(p, nta, 0)
    /\ evt' = [evt EXCEPT !.run = @ + 1, !.old = data.realParameter[3]]
    /\ pass' = EnvPass("NewRun")
    /\ UNCHANGED <<flags, log, solver>>

NextRuns ==
    \/ updateBoundParameters
    \/ NewRun

SpecRuns == InitRuns /\ [][NextRuns]_vars

(***************************************************************************)
(* Properties.  A step is identified by the name of the pass it leaves in  *)
(* pass; the state before the step is the unprimed one.                    *)
(***************************************************************************)
EvalPasses ==
    {"functionInitialEquations", "functionDAE", "functionAlgebraics",
     "function_ZeroCrossingsEquations"}

\* combiTimeTable.nextTimeEventScaled and combiTimeTable.nextTimeEvent
WhenVars == {<<"realVars", 57>>, <<"realVars", 56>>}

\* $whenCondition1 and not pre($whenCondition1)
Edge(d) == d.booleanVars[0] /\ ~d.booleanVarsPre[0]

\* the step neither assigns nor changes the two when-governed variables
WhenVarsKept ==
    /\ pass'.wr \cap WhenVars = {}
    /\ data'.realVars[57] = data.realVars[57]
    /\ data'.realVars[56] = data.realVars[56]

\* C1 as stated: in each of the four evaluation passes the two variables
\* are assigned only if $whenCondition1 is true and pre($whenCondition1) is
\* false in that pass, and are left unchanged otherwise.
C1_AllPasses == [][pass'.name \in EvalPasses => (Edge(data') \/ WhenVarsKept)]_vars

\* C1 amended: functionDAE assigns the two variables only on the edge of
\* $whenCondition1 and leaves them unchanged otherwise; functionAlgebraics
\* and function_ZeroCrossingsEquations never assign them; a completed
\* functionInitialEquations assigns both, whatever $whenCondition1 is.
C1_WhenEdge ==
    [][/\ pass'.name = "functionDAE" => (Edge(data') \/ WhenVarsKept)
       /\ pass'.name \in {"functionAlgebraics", "function_ZeroCrossingsEquations"}
             => WhenVarsKept
       /\ (pass'.name = "functionInitialEquations" /\ pass'.ab = NoAbort)
             => WhenVars \subseteq pass'.wr]_vars

\* a functionDAE pass that fired the when-clause and moved nextTimeEvent
C1_Witness ==
    /\ pass.name = "functionDAE"
    /\ WhenVars \subseteq pass.wr
    /\ Edge(data)
    /\ data.realVars[56] # data.realVarsPre[56]

PreLocations ==
    {<<"realVarsPre", i>> : i \in RealIdx} \cup {<<"booleanVarsPre", i>> : i \in BoolIdx}

\* pre-values that the initial equations 40, 81, 56 and 60 assign
InitialPreLocations ==
    {<<"realVarsPre", 57>>, <<"realVarsPre", 56>>, <<"booleanVarsPre", 9>>,
     <<"booleanVarsPre", 8>>}

PreKept ==
    /\ pass'.wr \cap PreLocations = {}
    /\ data'.realVarsPre = data.realVarsPre
    /\ data'.booleanVarsPre = data.booleanVarsPre

\* C5: functionAlgebraics, functionODE, function_ZeroCrossingsEquations,
\* function_ZeroCrossings and function_updateRelations leave every entry of
\* realVarsPre and booleanVarsPre unchanged, and so do functionDAE and
\* updateBoundParameters; functionInitialEquations writes pre-values, and
\* only those of its equations 40, 81, 56 and 60.
C5_PreOnlyAtInit ==
    [][/\ pass'.name \in {"functionAlgebraics", "functionODE",
                          "function_ZeroCrossingsEquations", "function_ZeroCrossings",
                          "function_updateRelations", "functionDAE",
                          "updateBoundParameters"} => PreKept
       /\ pass'.name = "functionInitialEquations"
             => pass'.wr \cap PreLocations \subseteq InitialPreLocations]_vars

\* a completed functionAlgebraics pass in a state where a discrete variable
\* differs from its pre-value, after the initial equations wrote pre-values
C5_Witness ==
    /\ pass.name = "functionAlgebraics"
    /\ pass.ab = NoAbort
    /\ data.booleanVars # data.booleanVarsPre
    /\ data.realVars[56] # data.realVarsPre[56]

LinearEqs == {23, 33, 98, 121}
SystemOf(eq) == CASE eq = 23 -> 0 [] eq = 33 -> 1 [] eq = 98 -> 2 [] eq = 121 -> 3

Count(seq, x) == Cardinality({i \in DOMAIN seq : seq[i] = x})
Entries(seq) == {seq[i] : i \in DOMAIN seq}

\* C7: when solve_linear_system fails for equation 23, 33, 98 or 121 the
\* pass is aborted with that equation's index and the current time, the
\* solution is not stored into the unknown, the solver was called once for
\* that system, and the failing equation is the last one the pass entered.
C7_SolverFailureAborts ==
    /\ \A eq \in LinearEqs :
          (eq \in Entries(pass.tr) /\ SystemOf(eq) \in pass.lsFail)
             => pass.ab = [eq |-> eq, kind |-> "linear", time |-> data.timeValue]
    /\ pass.ab.kind = "linear"
          => /\ pass.ab.eq \in LinearEqs
             /\ pass.ab.time = data.timeValue
             /\ pass.ab.eq \notin pass.sol
             /\ Count(pass.sc, SystemOf(pass.ab.eq)) = 1
             /\ pass.sc[Len(pass.sc)] = SystemOf(pass.ab.eq)
             /\ pass.tr[Len(pass.tr)] = pass.ab.eq
             /\ Count(pass.tr, pass.ab.eq) = 1

\* a functionDAE pass aborted by the failure of system 3 in equation 121,
\* after system 2 was solved and stored in the same pass
C7_Witness ==
    /\ pass.name = "functionDAE"
    /\ pass.ab = [eq |-> 121, kind |-> "linear", time |-> data.timeValue]
    /\ 98 \in pass.sol
    /\ data.timeValue > 0

\* the condition of the temperature assertion k is false in d
TemperatureViolated(d, k) ==
    ~GreaterEq(AddR(1, MulR(d.realParameter[ResistorBase(k) + OffAlpha],
                            SubR(d.realParameter[ResistorBase(k) + OffT],
                                 d.realParameter[ResistorBase(k) + OffTref]))), TINY)

Last(seq) == seq[Len(seq)]

C9_LoggedOnce ==
    [][(data.noThrowAsserts /\ data'.noThrowAsserts) =>
          \A k \in AssertEqs :
             log'[k] > log[k] => (log[k] = 0 /\ pass'.ab.kind # "assert")]_vars

\* C10 as stated: with noThrowAsserts clear, a violated assertion of
\* updateBoundParameters (216..239) or of functionInitialEquations (83..88)
\* only warns: the pass is not aborted by an assertion and a pass that is not
\* aborted has run every equation of its list.
C10_InitAssertsWarnOnly ==
    (data.initial /\ ~data.noThrowAsserts) =>
       /\ pass.name = "updateBoundParameters"
             => (pass.ab = NoAbort /\ pass.tr = updateBoundParameters_0_eqs)
       /\ pass.name = "functionInitialEquations"
             => (pass.ab.kind # "assert"
                 /\ (pass.ab = NoAbort => pass.tr = functionInitialEquations_0_eqs))

\* the latch output pre11.u goes from false to true in this step only in
\* a functionDAE pass with reset.y false and nor3.u2 true
SetOnlyBySetCondition ==
    (~data.booleanVars[9] /\ data'.booleanVars[9] /\ ~data'.initial)
       => /\ pass'.name = "functionDAE"
          /\ ~data'.booleanVars[11]
          /\ data'.booleanVars[6]

C4_WhenFiresOncePerEvent ==
    /\ evt.n57 <= 1
    /\ evt.n56 <= 1
    /\ (evt.phase = "check" /\ pass.wr \cap WhenVars # {})
          => (Edge(data) /\ WhenVars \subseteq pass.wr)

\* an event iteration in which the when-clause fired in an earlier pass and
\* a later pass left the two variables alone
C4_Witness ==
    /\ evt.phase = "check"
    /\ evt.iter >= 2
    /\ evt.n57 = 1
    /\ evt.n56 = 1
    /\ pass.wr \cap WhenVars = {}
    /\ data.realVars[56] = data.realVarsPre[56]

\* C11: over any sequence of updateBoundParameters and
\* callExternalObjectDestructors calls, every handle the constructor has
\* returned is either still held in extObjs[0] and not destroyed, or has
\* been passed to the destructor exactly once; and a
\* callExternalObjectDestructors call after the first destroys nothing.
C11_HandleDestroyedOnce ==
    [][/\ \A h \in 1..evt'.made :
             IF evt'.array /\ evt'.handle = h
             THEN evt'.destroyed[h] = 0
             ELSE evt'.destroyed[h] = 1
       /\ (pass'.name = "callExternalObjectDestructors" /\ ~evt.array)
             => evt'.destroyed = evt.destroyed]_vars

\* C12 as stated: each call of function_ZeroCrossings writes one gout entry
\* for each of the seven relations 0..6 counted by nRelations, each entry
\* being +1 or -1.
C12_IndicatorPerRelation ==
    pass.name = "function_ZeroCrossings"
        => /\ Len(pass.gout) = nRelations
           /\ \A i \in 1..Len(pass.gout) : pass.gout[i] \in {1, -1}

\* C12: each call of function_ZeroCrossings writes one gout entry for each
\* of the five zero crossings 0..4 counted by nZeroCrossings, each entry
\* being +1 or -1.
C12_IndicatorPerZeroCrossing ==
    pass.name = "function_ZeroCrossings"
        => /\ Len(pass.gout) = nZeroCrossings
           /\ \A i \in 1..Len(pass.gout) : pass.gout[i] \in {1, -1}

\* a call whose indicators have both signs
C12_Witness ==
    /\ pass.name = "function_ZeroCrossings"
    /\ \E i, j \in 1..Len(pass.gout) : pass.gout[i] = 1 /\ pass.gout[j] = -1

\* operand, threshold and direction of relation i
RelOperand(d, i) ==
    CASE i = 0 -> d.realVars[36]
      [] i = 1 -> d.realVars[38]
      [] OTHER -> d.timeValue

RelThreshold(d, i) ==
    CASE i = 0 -> d.realParameter[32]
      [] i = 1 -> d.realParameter[33]
      [] i = 2 -> T_01
      [] i = 3 -> T_09
      [] i = 4 -> T_095
      [] i = 5 -> T_096
      [] i = 6 -> d.realVarsPre[56]

RelLessEq == {2, 5}

\* the comparison of relation i evaluated without hysteresis
RelDirect(d, i) ==
    IF i \in RelLessEq THEN RelOperand(d, i) <= RelThreshold(d, i)
    ELSE RelOperand(d, i) >= RelThreshold(d, i)

\* the operand is nearer to the threshold than the hysteresis width
InBand(d, i) == Abs(RelOperand(d, i) - RelThreshold(d, i)) < ZCEps

\* the operand is on the side of the threshold where relation i has the
\* value v, at least the hysteresis width away from it
Crossed(d, i, v) ==
    IF (i \in RelLessEq) = v
    THEN RelOperand(d, i) - RelThreshold(d, i) <= -ZCEps
    ELSE RelOperand(d, i) - RelThreshold(d, i) >= ZCEps

\* the five indicators built from the values r of the seven relations
IndicatorsOf(r) ==
    <<Sign(r[0]), Sign(r[1]), Sign(r[2] \/ r[3]), Sign(r[4] /\ r[5]), Sign(r[6])>>

\* the indicators g are the ones built from the relation values r
ZeroCrossingConsistent(g, r) == g = IndicatorsOf(r)

C14_Residual121 ==
    [][/\ (pass'.name = "residualFunc" /\ pass'.sysIndex = 3)
          => /\ pass'.res = data.realParameter[29] - data.realVars[4] * pass'.x
                              - data.realVars[1] * pass'.x
             /\ pass'.res = 0
                   <=> pass'.x * (data.realVars[1] + data.realVars[4])
                          = data.realParameter[29]
       /\ (pass'.name = "eqFunction" /\ pass'.eq = 121 /\ pass'.ab = NoAbort)
          => /\ data'.realVars[5] * (data.realVars[1] + data.realVars[4])
                   = data.realParameter[29]
             /\ (/\ data.realVars[1] = 10
                 /\ data.realVars[4] = 10
                 /\ data.realParameter[29] = 100)
                   => /\ data'.realVars[5] = 5
                      /\ data'.realVars[6] = 50
                      /\ data'.realVars[2] = 50]_vars

\* equation 121 solved for the divider of the claim, the node at half the
\* supply
C14_Witness ==
    /\ pass.name = "eqFunction"
    /\ pass.eq = 121
    /\ pass.ab = NoAbort
    /\ data.realVars[1] = 10
    /\ data.realVars[4] = 10
    /\ data.realParameter[29] = 100
    /\ data.realVars[5] = 5
    /\ data.realVars[6] = 50

\* res[0] of the residual callback of system sysIndex at x in the state d
ResidualAt(d, sysIndex, x) == residualFunc(Machine(d, flags, log, {}), sysIndex, x).res

\* C15: for each of the four torn systems and every trial value x, the
\* column function called with the seed 1.0 gives resultVars[0] equal to
\* residual(x + 1.0) - residual(x), with the same parameters.
C15_JacobianIsFiniteDifference ==
    [][(pass'.name = "functionJacLSJac_column" /\ pass'.seed = 100)
          => /\ ~pass'.column.thrown
             /\ \A x \in LSTrials :
                   pass'.column.resultVars
                      = ResidualAt(data, pass'.sysIndex, x + 100)
                           - ResidualAt(data, pass'.sysIndex, x)]_vars

\* the column of system 2 for unequal resistances: minus one minus the
\* ratio of the resistances, in hundredths
C15_Witness ==
    /\ pass.name = "functionJacLSJac_column"
    /\ pass.sysIndex = 2
    /\ pass.seed = 100
    /\ data.realVars[51] = 50
    /\ data.realVars[48] = 10
    /\ pass.column.resultVars = -600

\* what the equations of the sequence eqs assign
AssignedIn(eqs) == UNION {EqAccess(eqs[i]).w : i \in DOMAIN eqs}

PreArrays == {"realVarsPre", "booleanVarsPre"}

\* C16: in each of the five equation sequences, every variable or bound
\* parameter, pre-values aside, that an equation reads and that the
\* sequence assigns has been assigned by an equation placed earlier in the
\* sequence.
C16_ReadsAfterAssignments ==
    [][pass'.name = "eqFunction"
          => \A v \in EqAccess(pass'.eq).r :
                (v[1] \notin PreArrays /\ v \in AssignedIn(OrderSeqs[evt.seq]))
                   => v \in evt.assigned]_vars

\* equation 108 of the discrete pass has read nextTimeEventScaled, which
\* equation 106 assigned two places before it
C16_Witness ==
    /\ pass.name = "eqFunction"
    /\ pass.eq = 108
    /\ evt.seq = 3
    /\ <<"realVars", 57>> \in EqAccess(108).r
    /\ <<"realVars", 57>> \in evt.assigned

\* relations aside, an equation function assigns exactly its w, or a part
\* of it when it threw or is a when-clause that did not fire
EqAccessCoversWrites ==
    pass.name = "eqFunction"
        => {v \in pass.wr : v[1] # "relations"} \subseteq EqAccess(pass.eq).w

\* an equation that is neither an assertion nor a when-clause
PlainEquation(k) == k \notin AssertEqs /\ k \notin {106, 108}

\* the pass m left the variables as they are in d
SameVariables(d, m) ==
    /\ d.realVars = m.d.realVars
    /\ d.booleanVars = m.d.booleanVars

\* C17: functionDAE calls exactly the equations of functionAlg_system0 and
\* the when-clause equations 106 and 108, the equations other than the
\* assertions in the same relative order; and a functionDAE pass in which
\* no when-clause fired and every relation got the value the continuous
\* pass reads leaves realVars and booleanVars as functionAlgebraics leaves
\* them from the same state.
C17_DiscreteIsContinuousPlusWhen ==
    [][pass'.name = "functionDAE"
          => /\ Entries(functionDAE_eqs) = Entries(functionAlg_system0_eqs) \cup {106, 108}
             /\ SelectSeq(functionDAE_eqs, PlainEquation)
                   = SelectSeq(functionAlg_system0_eqs, PlainEquation)
             /\ (/\ pass'.wr \cap WhenVars = {}
                 /\ data'.relations = data.relationsPre)
                   => SameVariables(data', functionAlgebraics_run(data, flags, log, solver))]_vars

\* a completed functionDAE pass of an event iteration past the start, no
\* when-clause fired, the relations as they were before the pass, and the
\* latch changed by the pass
C17_Witness ==
    /\ pass.name = "functionDAE"
    /\ pass.ab = NoAbort
    /\ pass.wr \cap WhenVars = {}
    /\ data.relations = data.relationsPre
    /\ data.timeValue > 0
    /\ data.booleanVars # data.booleanVarsPre

ContinuousPasses ==
    {"functionAlgebraics", "function_ZeroCrossingsEquations", "function_ZeroCrossings"}

\* C18: functionAlgebraics, function_ZeroCrossingsEquations and
\* function_ZeroCrossings, called with discreteCall = 0, leave relations
\* and storedRelations as they were, although they evaluate the
\* comparisons of the relations again.
C18_RelationsKeptInContinuousPasses ==
    [][(pass'.name \in ContinuousPasses /\ ~data.discreteCall)
          => /\ data'.relations = data.relations
             /\ data'.storedRelations = data.storedRelations]_vars

\* a completed functionAlgebraics pass at a time past 0.9 with relation 3
\* (time >= 0.9) still false
C18_Witness ==
    /\ pass.name = "functionAlgebraics"
    /\ pass.ab = NoAbort
    /\ ~data.discreteCall
    /\ RelDirect(data, 3)
    /\ ~data.relations[3]

\* the comparison of relation i evaluated with hysteresis against the
\* stored relation
RelHysteresis(d, i) ==
    IF i \in RelLessEq
    THEN LessEqZC(RelOperand(d, i), RelThreshold(d, i), d.storedRelations[i])
    ELSE GreaterEqZC(RelOperand(d, i), RelThreshold(d, i), d.storedRelations[i])

\* C19: a call of function_updateRelations assigns the seven relations and
\* nothing else; with evalforZeroCross = 0 each relation is the direct
\* comparison of its operands, otherwise the hysteresis comparison of the
\* same operands against storedRelations.
C19_UpdateRelations ==
    [][pass'.name = "function_updateRelations"
          => /\ pass'.wr = {<<"relations", i>> : i \in RelIdx}
             /\ data' = [data EXCEPT !.relations = data'.relations]
             /\ function_updateRelations_rel(data, FALSE)
                   = [i \in RelIdx |-> RelDirect(data, i)]
             /\ function_updateRelations_rel(data, TRUE)
                   = [i \in RelIdx |-> RelHysteresis(data, i)]
             /\ \E evalforZeroCross \in BOOLEAN :
                   data'.relations = function_updateRelations_rel(data, evalforZeroCross)]_vars

\* relations updated by the hysteresis branch at the time 0.96 with
\* relation 5 (time <= 0.96) stored false: it stays false where the direct
\* comparison is true
C19_Witness ==
    /\ pass.name = "function_updateRelations"
    /\ data.timeValue = T_096
    /\ ~data.storedRelations[5]
    /\ ~data.relations[5]
    /\ data.relations[4]

\* the first n equations of functionDAE evaluated from the state d
DAEPrefix(d, fl, lg, f, n) ==
    RunEqs(functionLocalKnownVars(
               Machine([d EXCEPT !.needToIterate = FALSE, !.discreteCall = TRUE],
                       fl, lg, f)),
           SubSeq(functionDAE_eqs, 1, n))

\* the array f of the store with the locations in w blanked
Outside(f, array, w) == [i \in DOMAIN f |-> IF <<array, i>> \in w THEN 0 ELSE f[i]]

\* the pass m ended without a throw, and outside the locations w its
\* variables are as in d
KeptFrom(d, m, w) ==
    /\ m.ab = NoAbort
    /\ Outside(d.realVars, "realVars", w) = Outside(m.d.realVars, "realVars", w)
    /\ Outside(d.booleanVars, "booleanVars", w) = Outside(m.d.booleanVars, "booleanVars", w)

\* the unknown of the linear system of equation eq
UnknownOf(eq) == CASE eq = 23 -> 6 [] eq = 33 -> 53 [] eq = 98 -> 49 [] eq = 121 -> 5

\* C20: a functionDAE pass that aborts inside equation k has entered the
\* equations up to k in their order and none after k, has not reached the
\* end of functionDAE, and leaves the values that the equations before k
\* assigned: outside the locations k assigns itself the variables are as
\* the equations before k left them; after a failed linear solve the
\* unknown holds the trial value the residual callback wrote.
C20_AbortKeepsPartialPass ==
    [][(pass'.name = "functionDAE" /\ pass'.ab # NoAbort)
          => /\ pass'.ab.eq \in {98, 121} \cup (134..139)
             /\ pass'.tr = SubSeq(functionDAE_eqs, 1, Len(pass'.tr))
             /\ Last(pass'.tr) = pass'.ab.eq
             /\ data'.discreteCall
             /\ KeptFrom(data', DAEPrefix(data, flags, log, solver, Len(pass'.tr) - 1),
                         EqAccess(pass'.ab.eq).w)
             /\ pass'.ab.kind = "linear"
                   => /\ <<"realVars", UnknownOf(pass'.ab.eq)>> \in pass'.wr
                      /\ data'.realVars[UnknownOf(pass'.ab.eq)]
                            = data.oldRealVars[UnknownOf(pass'.ab.eq)]]_vars

\* a functionDAE pass aborted by the failed solve of equation 98: the
\* residual callback has overwritten the solution of the initialization
\* with the trial value, and the equations before 98 have set enable
C20_Witness ==
    /\ pass.name = "functionDAE"
    /\ pass.ab.eq = 98
    /\ pass.ab.kind = "linear"
    /\ data.discreteCall
    /\ <<"realVars", 49>> \in pass.wr
    /\ data.realVars[49] = data.oldRealVars[49]
    /\ data.realVars[6] # 0
    /\ <<"booleanVars", 2>> \in pass.wr

\* the defining equations of the inner variables of the torn system of
\* equation eq (the ones its residual callback recomputes), in the state d
InnerConsistent(d, eq) ==
    CASE eq = 23 -> /\ d.realVars[5] = d.realVars[6] \div d.realVars[4]
                    /\ d.realVars[2] = d.realVars[1] * d.realVars[5]
      [] eq = 33 -> /\ d.realVars[52] = d.realVars[53] \div d.realVars[51]
                    /\ d.realVars[49] = d.realVars[48] * d.realVars[52]
      [] eq = 98 -> /\ d.realVars[52] = d.realVars[49] \div d.realVars[48]
                    /\ d.realVars[53] = d.realVars[51] * d.realVars[52]
      [] eq = 121 -> /\ d.realVars[2] = d.realVars[1] * d.realVars[5]
                     /\ d.realVars[6] = d.realVars[4] * d.realVars[5]

\* C21: when the equation function of a linear system (23, 33, 98, 121)
\* returns normally, the inner variables assigned only by its residual
\* callback satisfy their defining equations for the solution written to
\* the unknown (after 121: R1.v = R1.R_actual * R2.i and
\* R2.v = R2.R_actual * R2.i), whatever trial values the residual callback
\* was called with before.
C21_InnerEquationsHoldAtSolution ==
    [][(pass'.name = "eqFunction" /\ pass'.ab = NoAbort)
          => /\ pass'.eq \in pass'.sol
             /\ InnerConsistent(data', pass'.eq)]_vars

\* equation 98 solved for unequal resistances, after a state in which the
\* inner variables did not fit the unknown
C21_Witness ==
    /\ pass.name = "eqFunction"
    /\ pass.eq = 98
    /\ pass.ab = NoAbort
    /\ data.realVars[48] = 10
    /\ data.realVars[51] = 50
    /\ data.realVars[49] = 100
    /\ data.realVars[52] = 10
    /\ data.realVars[53] = 500

\* C22: each torn system uses one unknown throughout (23 / system 0 / R2.v,
\* 33 / 1 / resistor3.v, 98 / 2 / resistor2.v, 121 / 3 / R2.i): the
\* equation function seeds the solver with the unknown's value of the
\* previous step, calls the system whose registered equation index is its
\* own, the residual callback writes its trial value into the unknown, and
\* on success the solution is written to the same unknown.
C22_SameUnknownThroughout ==
    [][/\ pass'.name = "residualFunc"
          => data'.realVars[UnknownOf(linearSystemData[pass'.sysIndex].equationIndex)]
                = pass'.x
       /\ pass'.name = "eqFunction"
          => /\ Len(pass'.sc) = 1
             /\ linearSystemData[pass'.sc[1]].equationIndex = pass'.eq
             /\ linearSystemData[pass'.sc[1]].jacobianIndex = pass'.sc[1]
             /\ pass'.ab.kind = "linear"
                   => /\ pass'.aux = data.oldRealVars[UnknownOf(pass'.eq)]
                      /\ data'.realVars[UnknownOf(pass'.eq)] = pass'.aux
             /\ pass'.ab = NoAbort
                   => /\ data'.realVars[UnknownOf(pass'.eq)] = pass'.aux
                      /\ ResidualAt(data', pass'.sc[1], pass'.aux) = 0]_vars

\* equation 33 solved by system 1: resistor3.v holds the solution, which is
\* not the seed taken from the previous step
C22_Witness ==
    /\ pass.name = "eqFunction"
    /\ pass.eq = 33
    /\ pass.ab = NoAbort
    /\ pass.sc = <<1>>
    /\ data.realVars[53] = pass.aux
    /\ data.oldRealVars[53] # data.realVars[53]

\* C23: a call of a column function functionJacLSJac0_column ..
\* functionJacLSJac3_column and of the equations it calls writes only
\* tmpVars and resultVars of the Jacobian; realVars, booleanVars, the
\* pre-values, the parameters and the relations keep their values, so
\* column calls between residual calls leave the solution state as it was.
C23_JacobianColumnKeepsData ==
    [][pass'.name = "functionJacLSJac_column"
          => /\ data' = data
             /\ pass'.wr \subseteq {<<"tmpVars", 0>>, <<"tmpVars", 1>>, <<"tmpVars", 2>>,
                                    <<"resultVars", 0>>}
             /\ pass'.jacobian.seedVars[0] = pass'.seed
             /\ ~pass'.thrown
                   => pass'.jacobian.resultVars[0] = pass'.column.resultVars]_vars

\* a column of system 3 computed after a residual call left a trial value
\* in R2.i and R1.v
C23_Witness ==
    /\ pass.name = "functionJacLSJac_column"
    /\ pass.sysIndex = 3
    /\ pass.wr = {<<"tmpVars", 0>>, <<"tmpVars", 1>>, <<"resultVars", 0>>}
    /\ data.realVars[5] = 100
    /\ data.realVars[2] = data.realVars[1] * 100
    /\ pass.jacobian.tmpVars[0] = data.realVars[1] * 100

\* callbacks that set discreteCall, and the others of the model
DiscretePasses == {"functionDAE", "functionInitialEquations"}

\* C24: functionDAE and functionInitialEquations run their equations with
\* discreteCall = 1 and leave it 0 when they return normally (functionDAE
\* also leaves needToIterate cleared); a pass that aborts in an equation
\* leaves discreteCall = 1, and the callbacks that follow (functionAlgebraics,
\* function_ZeroCrossings, ...) do not change it, so they run with
\* discreteCall = 1.
C24_DiscreteCallFlag ==
    [][/\ pass'.name \in DiscretePasses
          => /\ data'.discreteCall <=> pass'.ab # NoAbort
             /\ pass'.name = "functionDAE" => ~data'.needToIterate
             /\ (pass'.name = "functionDAE" /\ pass'.tr # <<>>)
                   => <<"relations", 6>> \in pass'.wr
       /\ pass'.name \notin DiscretePasses
          => data'.discreteCall = data.discreteCall]_vars

\* a functionAlgebraics pass that ran with discreteCall still 1 after a
\* functionDAE that aborted, and so stored a relation
C24_Witness ==
    /\ pass.name = "functionAlgebraics"
    /\ data.discreteCall
    /\ ~data.initial
    /\ <<"relations", 6>> \in pass.wr

\* passes that evaluate the latch equations, and those equations
LatchPasses == {"functionDAE", "functionAlgebraics", "functionInitialEquations"}
LatchEqs == {103, 104, 130, 131}

\* C25: after every pass that has evaluated the latch equations
\* (functionDAE, functionAlgebraics, functionInitialEquations), whatever the
\* inputs and the pre-values: SW and pre1.u are not both true, nor3.y and
\* pre11.u are not both true, pre1.u is false when enable is true, and
\* pre11.u is false when reset is true.
C25_LatchOutputsExclusive ==
    (pass.name \in LatchPasses /\ LatchEqs \subseteq Entries(pass.tr))
       => /\ ~(data.booleanVars[1] /\ data.booleanVars[8])
          /\ ~(data.booleanVars[7] /\ data.booleanVars[9])
          /\ data.booleanVars[2] => ~data.booleanVars[8]
          /\ data.booleanVars[11] => ~data.booleanVars[9]

\* a functionAlgebraics pass outside both pulses that leaves pre1.u set
\* and SW clear, with a pre-value of pre1.u that was true
C25_Witness ==
    /\ pass.name = "functionAlgebraics"
    /\ LatchEqs \subseteq Entries(pass.tr)
    /\ ~data.booleanVars[2]
    /\ ~data.booleanVars[11]
    /\ data.booleanVars[8]
    /\ ~data.booleanVars[1]
    /\ data.booleanVarsPre[8]

\* the outputs of equations 128, 114, 91, 90 and 89 in the state d, as
\* indicators: nand.u1, greaterEqualThreshold1.y, enable.y, reset.y and
\* $whenCondition1
OutputIndicators(d) ==
    <<Sign(d.booleanVars[4]), Sign(d.booleanVars[3]), Sign(d.booleanVars[2]),
      Sign(d.booleanVars[11]), Sign(d.booleanVars[0])>>

\* C26: a relation index stands for the same comparison everywhere: the
\* five indicators of function_ZeroCrossings are +1 exactly for relation 0,
\* relation 1, (relation 2 or relation 3), (relation 4 and relation 5) and
\* relation 6, taken as function_updateRelations (evalforZeroCross != 0)
\* stores them for the same values and storedRelations, and a completed
\* functionDAE leaves these values in relations and these booleans in the
\* outputs of equations 128, 114, 91, 90 and 89.
C26_RelationIndexBinding ==
    [][/\ pass'.name = "function_ZeroCrossings"
          => pass'.gout = IndicatorsOf(function_updateRelations_rel(data, TRUE))
       /\ (pass'.name = "functionDAE" /\ pass'.ab = NoAbort)
          => /\ data'.relations = function_updateRelations_rel(data', TRUE)
             /\ OutputIndicators(data') = IndicatorsOf(data'.relations)
             /\ OutputIndicators(data') = function_ZeroCrossings_gout(data')]_vars

\* indicators computed inside the reset pulse after a functionDAE pass:
\* reset.y is true and so is the fourth indicator, enable.y holds by
\* relation 3 alone
C26_Witness ==
    /\ pass.name = "function_ZeroCrossings"
    /\ data.booleanVars[11]
    /\ pass.gout[4] = 1
    /\ data.relations[4] /\ data.relations[5]
    /\ data.relations[3] /\ ~data.relations[2]
    /\ pass.gout[3] = 1

\* place of the equation k in the sequence eqs (0 when it is not there)
PlaceIn(eqs, k) ==
    IF k \in Entries(eqs) THEN CHOOSE i \in DOMAIN eqs : eqs[i] = k ELSE 0

\* sub is a subsequence of eqs: its members are in eqs, in the same order
IsSubsequence(sub, eqs) ==
    /\ \A i \in DOMAIN sub : PlaceIn(eqs, sub[i]) > 0
    /\ \A i, j \in DOMAIN sub : i < j => PlaceIn(eqs, sub[i]) < PlaceIn(eqs, sub[j])

\* C27: function_ZeroCrossingsEquations executes equations 89, 98, 105,
\* 107, 109, 110, 121, 123, 124, a subsequence of the order of functionDAE
\* without when-clause (106, 108) and without assertion (134-139), and the
\* indicators of function_ZeroCrossings computed after it are those
\* computed after a full functionAlgebraics pass from the same state.
C27_ZeroCrossingEquationsSuffice ==
    [][pass'.name = "function_ZeroCrossingsEquations"
          => /\ pass'.ab = NoAbort
                   => pass'.tr = <<89, 98, 105, 107, 109, 110, 121, 123, 124>>
             /\ IsSubsequence(pass'.tr, functionDAE_eqs)
             /\ Entries(pass'.tr) \cap ({106, 108} \cup AssertEqs) = {}
             /\ function_ZeroCrossings_gout(data')
                   = function_ZeroCrossings_gout(
                        functionAlgebraics_run(data, flags, log, solver).d)]_vars

\* the zero-crossing equations run to their end at a time in the reset
\* pulse, potentialSensor.phi recomputed above its threshold
C27_Witness ==
    /\ pass.name = "function_ZeroCrossingsEquations"
    /\ pass.ab = NoAbort
    /\ Len(pass.tr) = 9
    /\ data.timeValue = 955
    /\ <<"realVars", 36>> \in pass.wr
    /\ data.realVars[36] >= data.realParameter[32]
    /\ function_ZeroCrossings_gout(data)[1] = 1

\* the temperature assertions, R_actual of the resistor of the assertion k
\* of the simulation system, and the passes that evaluate them
TemperatureEqs == (83..88) \cup (134..139)
RActualOf(k) == <<1, 4, 40, 44, 48, 51>>[k - 133]
TemperaturePasses == {"functionInitialEquations", "functionDAE", "functionAlgebraics"}

\* a value that is a number (the model's only other value is NaN)
Finite(x) == x # NaN

\* T = T_ref = T_heatPort for the resistor of the assertion k
TemperatureBound(d, k) ==
    /\ d.realParameter[ResistorBase(k) + OffT] = d.realParameter[ResistorBase(k) + OffTref]
    /\ d.realParameter[ResistorBase(k) + 2] = d.realParameter[ResistorBase(k) + OffT]

\* C28 as stated: after updateBoundParameters T = T_ref = T_heatPort and
\* R_actual = R for each of the six resistors, and in every later pass no
\* temperature assertion (83-88, 134-139) is violated.
C28_TemperatureNeverViolated ==
    /\ pass.name = "updateBoundParameters"
          => \A k \in 134..139 :
                /\ TemperatureBound(data, k)
                /\ data.realVars[RActualOf(k)] = data.realParameter[ResistorBase(k)]
    /\ pass.name \in TemperaturePasses
          => \A k \in TemperatureEqs :
                /\ ~TemperatureViolated(data, k)
                /\ pass.ab.eq # k

\* C28 amended: after updateBoundParameters T = T_ref = T_heatPort for each
\* of the six resistors, and for a resistor whose alpha and T_ref are
\* finite R_actual = R and, in every later pass, the condition of its
\* temperature assertion holds and the assertion is not violated.
C28_TemperatureHoldsForFiniteAlpha ==
    /\ pass.name = "updateBoundParameters"
          => \A k \in 134..139 :
                /\ TemperatureBound(data, k)
                /\ (/\ Finite(data.realParameter[ResistorBase(k) + OffAlpha])
                    /\ Finite(data.realParameter[ResistorBase(k) + OffTref]))
                      => data.realVars[RActualOf(k)] = data.realParameter[ResistorBase(k)]
    /\ pass.name \in TemperaturePasses
          => \A k \in TemperatureEqs :
                (/\ Finite(data.realParameter[ResistorBase(k) + OffAlpha])
                 /\ Finite(data.realParameter[ResistorBase(k) + OffTref]))
                   => /\ TemperatureBound(data, k)
                      /\ ~TemperatureViolated(data, k)
                      /\ pass.ab.eq # k

\* a functionDAE pass that evaluated assertion 134 for R1, whose T was
\* bound to a T_ref different from the default
C28_Witness ==
    /\ pass.name = "functionDAE"
    /\ 134 \in Entries(pass.tr)
    /\ data.realParameter[3] = -5
    /\ data.realParameter[1] = -5
    /\ data.realParameter[2] = -5
    /\ data.realVars[1] = 10

BoundAssertEqs == 216..239

\* C29: the already-warned flag of a parameter assertion (216-239) is set
\* only by a call in which the assertion was violated and is never cleared;
\* once it is set, every later call of the assertion in the process, also
\* on another DATA instance or in a second run, neither checks nor logs,
\* whatever the value of the parameter is then.
C29_WarnedFlagOutlivesRun ==
    [][/\ pass'.name = "updateBoundParameters"
          => \A k \in BoundAssertEqs :
                /\ flags'[k] <=> (flags[k] \/ ~BoundAssertCond(data', k))
                /\ flags[k] => log'[k] = log[k]
                /\ log'[k] # log[k] => (~flags[k] /\ ~BoundAssertCond(data', k))
       /\ pass'.name # "updateBoundParameters"
          => \A k \in BoundAssertEqs : flags'[k] = flags[k]]_vars

\* the second run of a process, with R1.T_ref = -7 after a run with
\* R1.T_ref = -5: assertion 216 is violated again and was logged once
C29_Witness ==
    /\ pass.name = "updateBoundParameters"
    /\ evt.phase = "runs"
    /\ evt.run = 2
    /\ evt.old = -5
    /\ data.realParameter[3] = -7
    /\ ~BoundAssertCond(data, 216)
    /\ flags[216]
    /\ log[216] = 1


(***************************************************************************)
(* Sizes of the arrays the generated callbacks index: setupDataStruc       *)
(* declares those of DATA, the Jacobian initialisers allocate seedVars,    *)
(* resultVars and tmpVars.                                                 *)
(***************************************************************************)
nLinearSystems == 4
nExtObjs == 1
sizeCols == 1
sizeRows == 1
sizeTmpVars == 3

ArraySize(array) ==
    CASE array \in {"realVars", "realVarsPre"} -> nVariablesReal
      [] array \in {"booleanVars", "booleanVarsPre"} -> nVariablesBoolean
      [] array = "realParameter" -> nParametersReal
      [] array = "integerParameter" -> nParametersInteger
      [] array = "booleanParameter" -> nParametersBoolean
      [] array \in {"relations", "storedRelations"} -> nRelations
      [] array = "gout" -> nZeroCrossings
      [] array = "linearSystemData" -> nLinearSystems
      [] array = "extObjs" -> nExtObjs
      [] array = "seedVars" -> sizeCols
      [] array = "resultVars" -> sizeRows
      [] array = "tmpVars" -> sizeTmpVars

\* the place v = <<array, index>> lies inside the array
InArray(v) == v[2] \in 0..(ArraySize(v[1]) - 1)

\* the places a Jacobian column of system sysIndex writes
JacobianPlaces(d, sysIndex) == functionJacLSJac_column_run(d, sysIndex, 100).wr

\* C30: every array index used by the generated callbacks lies within the
\* sizes declared in setupDataStruc and the Jacobian initialisers: every
\* place an equation function reads or writes lies inside realVars,
\* realVarsPre (58), booleanVars, booleanVarsPre (12), realParameter (61),
\* integerParameter (5), booleanParameter (11), relations (7) or extObjs
\* (1), every linear system it solves has an index below 4, the indicators
\* fill gout below 5, and a Jacobian column writes resultVars below 1 and
\* tmpVars below 3; the arrays of DATA have the declared sizes.
C30_IndicesWithinDeclaredSizes ==
    /\ DOMAIN data.realVars = 0..(ArraySize("realVars") - 1)
    /\ DOMAIN data.realVarsPre = 0..(ArraySize("realVarsPre") - 1)
    /\ DOMAIN data.booleanVars = 0..(ArraySize("booleanVars") - 1)
    /\ DOMAIN data.booleanVarsPre = 0..(ArraySize("booleanVarsPre") - 1)
    /\ DOMAIN data.realParameter = 0..(ArraySize("realParameter") - 1)
    /\ DOMAIN data.integerParameter = 0..(ArraySize("integerParameter") - 1)
    /\ DOMAIN data.booleanParameter = 0..(ArraySize("booleanParameter") - 1)
    /\ DOMAIN data.relations = 0..(ArraySize("relations") - 1)
    /\ DOMAIN data.storedRelations = 0..(ArraySize("storedRelations") - 1)
    /\ DOMAIN linearSystemData = 0..(ArraySize("linearSystemData") - 1)
    /\ Len(function_ZeroCrossings_gout(data)) <= ArraySize("gout")
    /\ \A sysIndex \in DOMAIN linearSystemData :
          \A v \in JacobianPlaces(data, sysIndex) : InArray(v)
    /\ pass.name = "eqFunction"
          => /\ \A v \in EqAccess(pass.eq).r \cup EqAccess(pass.eq).w : InArray(v)
             /\ \A v \in pass.wr : InArray(v)
             /\ \A i \in DOMAIN pass.sc : InArray(<<"linearSystemData", pass.sc[i]>>)

\* equation 38 of the initial equations has written the last place of
\* realVars, nextTimeEventScaled
C30_Witness ==
    /\ pass.name = "eqFunction"
    /\ pass.eq = 38
    /\ <<"realVars", nVariablesReal - 1>> \in pass.wr
    /\ <<"realVars", nVariablesReal - 1>> \in EqAccess(38).w

====
